---- MODULE Spec2Model ----
(***************************************************************************)
(* A state-machine model of the in-browser music visualizer.              *)
(*                                                                         *)
(* The repository holds four variants of one page script, selected by     *)
(* the variable `variant`:                                                 *)
(*   "web"     src/unnamed/part_000       presets, sensitivity, particles  *)
(*   "sphere"  src/unnamed/part_002       displaced sphere                 *)
(*   "bars"    src/script.js:358-617      bar-graph equalizer              *)
(*   "classic" src/script.js:1-356        the line mesh alone              *)
(* and three scripts that run beside the page script:                     *)
(*   "worker-cache"     src/unnamed/part_001   transcription worker       *)
(*   "worker-singleton" src/unnamed/part_003   transcription worker       *)
(*   "background"       src/p5-background.js   particle background        *)
(*                                                                         *)
(* The classic variant has the mesh of the web variant's default preset,  *)
(* a feature extractor of its own, without sensitivity, and the transport *)
(* of the sphere variant.                                                  *)
(*                                                                         *)
(* Every function of the page script is an operator from a state record   *)
(* to a state record, named as in the source; every event handler is an   *)
(* action that applies the operators in the order the handler calls them. *)
(* The HTML media element, the analyser and the animation-frame scheduler *)
(* are the environment: their behaviour is taken from the call sites and  *)
(* from the HTML media-element rules the handlers depend on.              *)
(*                                                                         *)
(* The next-state relations are views of the one page: Next (transport),  *)
(* NextScene (frames and configuration), NextLoop (the render loop under  *)
(* disturbance), NextGraph (construction of the audio graph), NextSeek    *)
(* (the seek bar), NextFeatures (the feature extractor under varied       *)
(* spectra), NextShort (frames of any length), NextHue (hue against       *)
(* spectra and presets), NextResize (window sizes), NextPlaylist (the     *)
(* playlist and its index) and NextPlaying (the playing flag and the      *)
(* audio graph).  NextWorker and NextBackground are the                   *)
(* scripts beside the page.  Every view runs whole handlers on the whole  *)
(* state; a view leaves out handlers, never parts of one.                 *)
(*                                                                         *)
(* Numbers.  The sensitivity, feature values, hues and vertex coordinates *)
(* are exact rationals <<n, d>> in lowest terms, or NaN.  Rotation angles *)
(* are whole numbers of 1/10000 radian.  Times are centiseconds.          *)
(***************************************************************************)
EXTENDS Integers, Sequences, FiniteSets, TLC

(***************************************************************************)
(* Bounds of the model.                                                    *)
(***************************************************************************)
MaxFrames == 3
MaxQueue == 2
MaxUrls == 2

(***************************************************************************)
(* Exact rational arithmetic.  NaN is the pair <<0, 0>>: every operation  *)
(* on it gives NaN and every comparison with it is false, as in IEEE      *)
(* arithmetic.                                                             *)
(***************************************************************************)
NaN == <<0, 0>>

IsNaN(a) == a = NaN

Abs(x) == IF x < 0 THEN -x ELSE x

Min(a, b) == IF a < b THEN a ELSE b

Max(a, b) == IF a > b THEN a ELSE b

RECURSIVE GCD(_, _)
GCD(a, b) == IF b = 0 THEN a ELSE GCD(b, a % b)

(* the fraction n / d in lowest terms; the denominator is 0 only when an  *)
(* operand was NaN                                                         *)
Rat(n, d) ==
  LET g == GCD(Abs(n), Abs(d))
      sg == IF d < 0 THEN -1 ELSE 1
  IN IF d = 0 THEN NaN ELSE <<(sg * n) \div g, (sg * d) \div g>>

RInt(n) == <<n, 1>>

RAdd(a, b) == Rat(a[1] * b[2] + b[1] * a[2], a[2] * b[2])

RSub(a, b) == Rat(a[1] * b[2] - b[1] * a[2], a[2] * b[2])

RMul(a, b) == Rat(a[1] * b[1], a[2] * b[2])

RDivInt(a, k) == Rat(a[1], a[2] * k)

(* a <= b and a < b for fractions with positive denominators; false when  *)
(* either side is NaN                                                      *)
RLeq(a, b) == ~IsNaN(a) /\ ~IsNaN(b) /\ a[1] * b[2] <= b[1] * a[2]

RLess(a, b) == ~IsNaN(a) /\ ~IsNaN(b) /\ a[1] * b[2] < b[1] * a[2]

(* Math.max and Math.min of two numbers: NaN when either is NaN           *)
RMax(a, b) == IF IsNaN(a) \/ IsNaN(b) THEN NaN ELSE IF RLess(a, b) THEN b ELSE a

RMin(a, b) == IF IsNaN(a) \/ IsNaN(b) THEN NaN ELSE IF RLess(b, a) THEN b ELSE a

(* Math.sqrt on the sum of squares of a vertex: the model's vertices have *)
(* whole-number lengths, so the root is exact.                            *)
ISqrt(n) == CHOOSE r \in 0..(n + 1) : r * r <= n /\ (r + 1) * (r + 1) > n

(***************************************************************************)
(* Spectrum frames.  analyser.fftSize = 512 gives frequencyBinCount = 256 *)
(* unsigned bytes per poll.  A frame is a sequence; JavaScript index i is *)
(* element i + 1.                                                          *)
(***************************************************************************)
FftSize == 512

BinCount == FftSize \div 2

ZeroFrame == [i \in 1..BinCount |-> 0]

BassFrame == [i \in 1..BinCount |-> IF i <= 32 THEN 255 ELSE 0]

(* The frames getByteFrequencyData may deliver in the system model.       *)
Spectra == {ZeroFrame, BassFrame}

(***************************************************************************)
(* Feature extraction (part_000).                                          *)
(***************************************************************************)
(* sum of array[i .. end-1] (JavaScript indices), cut at the array's end;  *)
(* the range is summed by halves to keep the evaluation shallow           *)
RECURSIVE SumRange(_, _, _)
SumRange(array, i, end) ==
  LET hi == Min(end, Len(array))
      mid == (i + hi) \div 2
  IN IF i >= hi THEN 0
     ELSE IF hi - i = 1 THEN array[i + 1]
     ELSE SumRange(array, i, mid) + SumRange(array, mid, hi)

(* avgRange as it would be without the test of len: the quotient 0 / 0 of *)
(* an empty range is NaN: what C23 excludes.                              *)
avgRangeUnguarded(array, start, end) ==
  LET len == Max(0, Min(end, Len(array)) - start)
  IN IF len = 0 THEN NaN ELSE Rat(SumRange(array, start, end), len)

avgRange(array, start, end) ==
  LET len == Max(0, Min(end, Len(array)) - start)
  IN IF len = 0 THEN RInt(0) ELSE Rat(SumRange(array, start, end), len)

(* 0.25 + (sensitivity / 100) * 1.75; NaN at sensitivity NaN               *)
sensitivityFactor(sensitivity) ==
  RAdd(<<1, 4>>, RMul(RDivInt(sensitivity, 100), <<7, 4>>))

(* the bass energy as it would be if averaged over the first 64 bins:     *)
(* what C19 excludes.                                                      *)
bassIntensityOfWide(data) == RDivInt(avgRange(data, 0, 64), 255)

bassIntensityOf(data) == RDivInt(avgRange(data, 0, 32), 255)

midIntensityOf(data) == RDivInt(avgRange(data, 32, 128), 255)

(* the displacement as it would be with the two weights exchanged: what   *)
(* C21 excludes.                                                           *)
baseDispOfMidHeavy(data, sensitivity) ==
  RMul(RAdd(RMul(bassIntensityOf(data), RInt(10)), RMul(midIntensityOf(data), RInt(20))),
       sensitivityFactor(sensitivity))

baseDispOf(data, sensitivity) ==
  RMul(RAdd(RMul(bassIntensityOf(data), RInt(20)), RMul(midIntensityOf(data), RInt(10))),
       sensitivityFactor(sensitivity))

(***************************************************************************)
(* Geometry.  The three.js generators are external; each preset is        *)
(* represented by a few of its vertices, as the flat x,y,z buffer that    *)
(* EdgesGeometry hands to the script.  The presets have different vertex  *)
(* counts, as the real meshes do.                                          *)
(***************************************************************************)
Presets == {"cosmic-grid", "wave-tunnel", "particle-burst"}

FlatInts(seq) == [k \in 1..Len(seq) |-> RInt(seq[k])]

BaseGeometry(nextPreset) ==
  CASE nextPreset = "wave-tunnel" -> FlatInts(<<0, 0, 34, 20, 15, 0, 18, -24, 0>>)
    [] nextPreset = "particle-burst" -> FlatInts(<<0, 40, 0, 32, 0, -24>>)
    [] OTHER -> FlatInts(<<40, 0, 0, 0, 24, 32>>)

LineColor(nextPreset) ==
  CASE nextPreset = "wave-tunnel" -> 2282478
    [] nextPreset = "particle-burst" -> 16347926
    [] OTHER -> 4364769

SphereGeometry == FlatInts(<<0, 50, 0, 30, 0, 40>>)

(* THREE.Vector3.length of the vertex starting at flat index i3 (0-based). *)
VLength(buf, i3) ==
  LET x == buf[i3 + 1]
      y == buf[i3 + 2]
      z == buf[i3 + 3]
      d == x[2] * y[2] * z[2]
      sq(c) == (c[1] * (d \div c[2])) * (c[1] * (d \div c[2]))
  IN Rat(ISqrt(sq(x) + sq(y) + sq(z)), d)

(* THREE.Vector3.normalize: divideScalar(length || 1), one component.     *)
Direction(buf, i3, k) ==
  LET len == VLength(buf, i3)
      by == IF len[1] = 0 THEN RInt(1) ELSE len
  IN Rat(buf[i3 + k][1] * by[2], buf[i3 + k][2] * by[1])

(* original + direction * displacement, for every component of the buffer *)
Displaced(orig, disp) ==
  [k \in 1..Len(orig) |->
     LET i3 == 3 * ((k - 1) \div 3)
         c == ((k - 1) % 3) + 1
     IN RAdd(orig[k], RMul(Direction(orig, i3, c), disp))]

PresetHue(p, bassIntensity) ==
  CASE p = "wave-tunnel" -> RSub(<<11, 20>>, RMul(bassIntensity, <<2, 5>>))
    [] p = "particle-burst" -> RAdd(<<7, 100>>, RMul(bassIntensity, <<3, 20>>))
    [] OTHER -> RSub(<<3, 5>>, RMul(bassIntensity, <<3, 5>>))

HSL(h, s, l) == <<"hsl", h, s, l>>

Hex(n) == <<"hex", n>>

(* updateVisualizer as it would be if it displaced the previous frame's   *)
(* positions instead of the base positions: what C3 excludes.             *)
updateVisualizerDrifting(s, data) ==
  LET baseDisp == baseDispOf(data, s.sensitivity)
  IN [s EXCEPT !.positions =
                 [k \in 1..Len(s.positions) |->
                    RAdd(s.positions[k],
                         RMul(Direction(s.originalPositions, 3 * ((k - 1) \div 3),
                                        ((k - 1) % 3) + 1),
                              baseDisp))],
               !.color = HSL(PresetHue(s.preset, bassIntensityOf(data)), <<4, 5>>, <<1, 2>>)]

(* updateVisualizer as it would be if it wrote the displaced vertices     *)
(* into originalPositions itself: what C4 excludes.                       *)
updateVisualizerInPlace(s, data) ==
  LET moved == Displaced(s.originalPositions, baseDispOf(data, s.sensitivity))
  IN [s EXCEPT !.originalPositions = moved,
               !.positions = moved,
               !.color = HSL(PresetHue(s.preset, bassIntensityOf(data)), <<4, 5>>, <<1, 2>>)]

(* updateVisualizer as it would be with a resting displacement of 1 added *)
(* to the displacement of the frame: what C22 excludes.                   *)
updateVisualizerRestless(s, data) ==
  LET baseDisp == RAdd(baseDispOf(data, s.sensitivity), RInt(1))
  IN [s EXCEPT !.positions = Displaced(s.originalPositions, baseDisp),
               !.color = HSL(PresetHue(s.preset, bassIntensityOf(data)), <<4, 5>>, <<1, 2>>)]

updateVisualizer(s, data) ==
  LET bassIntensity == bassIntensityOf(data)
      midIntensity == midIntensityOf(data)
      sens == sensitivityFactor(s.sensitivity)
      baseDisp == baseDispOf(data, s.sensitivity)
      s1 == [s EXCEPT !.positions = Displaced(s.originalPositions, baseDisp),
                      !.color = HSL(PresetHue(s.preset, bassIntensity), <<4, 5>>, <<1, 2>>)]
  IN IF s.particlesVisible
       THEN [s1 EXCEPT !.partScale = RAdd(RInt(1), RMul(RMul(midIntensity, <<3, 20>>), sens)),
                       !.partOpacity = RAdd(<<7, 20>>, RMul(bassIntensity, <<2, 5>>))]
       ELSE s1

(* if (web) { dispose geometry and material; scene.remove(web); web = null } *)
disposeWeb(s) ==
  IF s.web
    THEN [s EXCEPT !.undisposed = @ - 1, !.sceneWebs = @ - 1, !.web = FALSE]
    ELSE s

(* the rest of createVisualizerWeb: base geometry, a new LineGeometry on   *)
(* the base positions, a new material, a new Line2 (rotation 0) added to   *)
(* the scene                                                               *)
installWeb(s, nextPreset) ==
  [s EXCEPT !.originalPositions = BaseGeometry(nextPreset),
            !.positions = BaseGeometry(nextPreset),
            !.color = Hex(LineColor(nextPreset)),
            !.webRotX = 0,
            !.webRotY = 0,
            !.resolution = s.container,
            !.undisposed = @ + 1,
            !.sceneWebs = @ + 1,
            !.web = TRUE,
            !.preset = nextPreset]

(* createVisualizerWeb as it would be without the disposal of the old     *)
(* mesh: what C11 excludes.                                                *)
createVisualizerWebLeaking(s, nextPreset) == installWeb(s, nextPreset)

(* createVisualizerWeb as it would be if the new mesh kept the position   *)
(* buffer of the old one: what C16 excludes.                               *)
createVisualizerWebStale(s, nextPreset) ==
  [installWeb(disposeWeb(s), nextPreset)
     EXCEPT !.positions = IF s.web THEN s.positions ELSE @]

(* createVisualizerWeb as it would be if the new mesh took over the       *)
(* rotation of the old one and turned on from there: what C13 excludes.   *)
createVisualizerWebTurning(s, nextPreset) ==
  [installWeb(disposeWeb(s), nextPreset) EXCEPT !.webRotY = s.webRotY + 10,
                                                !.webRotX = s.webRotX]

(* createVisualizerWeb as it would be if it emptied the whole scene, the   *)
(* ambient layer included, before it installs the new mesh: what C26      *)
(* excludes.                                                               *)
createVisualizerWebClearing(s, nextPreset) ==
  [installWeb(disposeWeb(s), nextPreset) EXCEPT !.particles = FALSE,
                                                !.particleLayers = 0,
                                                !.particlesVisible = FALSE]

createVisualizerWeb(s, nextPreset) == installWeb(disposeWeb(s), nextPreset)

(***************************************************************************)
(* The sphere variant (part_002): one spectrum bin per vertex, written    *)
(* into the geometry's own buffer; the base buffer is a separate copy.    *)
(***************************************************************************)
SphereColor == Hex(39423)

(* the loop over the vertices: vertex i is moved along its direction by   *)
(* the magnitude of the bin Math.floor(i / (vertexCount / length))        *)
DisplacedByBins(buf, orig, data) ==
  LET vertexCount == Len(buf) \div 3
      dataIndex(i) == ((i * Len(data)) \div vertexCount) % Len(data)
      displacement(i) == RMul(Rat(data[dataIndex(i) + 1], 255), RInt(20))
  IN [k \in 1..Len(buf) |->
        LET i == (k - 1) \div 3
            c == ((k - 1) % 3) + 1
        IN RAdd(orig[k], RMul(Direction(orig, 3 * i, c), displacement(i)))]

updateVisualizerWeb(s, data) ==
  LET overallAvg == Rat(SumRange(data, 0, Len(data)), Len(data))
      colorIntensity == RDivInt(overallAvg, 255)
  IN [s EXCEPT !.positions = DisplacedByBins(s.positions, s.originalPositions, data),
               !.webRotY = @ + 10,
               !.color = HSL(RAdd(<<11, 20>>, RMul(colorIntensity, <<1, 10>>)), RInt(1), <<1, 2>>)]

(***************************************************************************)
(* The classic variant (script.js:1-356): the icosahedron of the web      *)
(* variant's default preset, displaced by the bass and mid sums over the  *)
(* fixed counts 32 and 96; there is no sensitivity.                       *)
(***************************************************************************)
ClassicGeometry == BaseGeometry("cosmic-grid")

ClassicColor == Hex(LineColor("cosmic-grid"))

(* data.slice(start, end).reduce((a, b) => a + b, 0) / count              *)
sliceAvg(data, start, end, count) == Rat(SumRange(data, start, end), count)

(* (bassAvg / 255) * 20 + (midAvg / 255) * 10                             *)
displacementOf(data) ==
  RAdd(RMul(RDivInt(sliceAvg(data, 0, 32, 32), 255), RInt(20)),
       RMul(RDivInt(sliceAvg(data, 32, 128, 96), 255), RInt(10)))

updateVisualizerClassic(s, data) ==
  LET bassAvg == sliceAvg(data, 0, 32, 32)
      displacement == displacementOf(data)
      bassIntensity == RDivInt(bassAvg, 255)
      hue == RSub(<<3, 5>>, RMul(bassIntensity, <<3, 5>>))
  IN [s EXCEPT !.positions = Displaced(s.originalPositions, displacement),
               !.color = HSL(hue, <<4, 5>>, <<1, 2>>)]

(* script.js:62-86: no mesh is disposed; a new Line2 (rotation 0) is added *)
(* to the scene; init calls it once                                        *)
createVisualizerWebClassic(s) ==
  [s EXCEPT !.originalPositions = ClassicGeometry,
            !.positions = ClassicGeometry,
            !.color = ClassicColor,
            !.webRotX = 0,
            !.webRotY = 0,
            !.resolution = s.container,
            !.undisposed = @ + 1,
            !.sceneWebs = @ + 1,
            !.web = TRUE]

(***************************************************************************)
(* The bars variant (script.js): one bar per bin, height 1 + p^2 * 200.    *)
(***************************************************************************)
buildVisualizerBars(s) == [s EXCEPT !.bars = [i \in 1..BinCount |-> RInt(1)]]

updateVisualizerBars(s, data) ==
  [s EXCEPT !.bars = [i \in 1..Len(s.bars) |->
                        LET percent == Rat(data[i], 255)
                        IN RAdd(RInt(1), RMul(RMul(percent, percent), RInt(200)))]]

(***************************************************************************)
(* The HTML media element, as far as the script depends on it.            *)
(*   paused, src (0 = no src attribute, else an object-URL id),           *)
(*   readyState: "empty" (no resource selected), "loading", "ready"       *)
(*               (metadata known, duration finite), "failed",             *)
(*   currentTime in centiseconds, mediaEvents: the queued event tasks,    *)
(*   playPromises: pending promises returned by play().                   *)
(* A rejected play() promise runs the script's catch callback, which only *)
(* logs and shows a toast; the toast is view state outside the model.     *)
(***************************************************************************)
Duration == 2 * 100

TimeStep == Duration \div 2

(* The load algorithm (src assignment, load()): queued event tasks are    *)
(* removed; if a resource was selected the element is paused, pending     *)
(* play promises are rejected and the position returns to 0, with a       *)
(* 'timeupdate' task queued if that moved it.                             *)
elLoad(s) ==
  [s EXCEPT !.mediaEvents = IF s.currentTime # 0 THEN <<"timeupdate">> ELSE <<>>,
            !.paused = IF s.readyState # "empty" THEN TRUE ELSE @,
            !.playPromises = IF s.readyState # "empty" /\ ~s.paused THEN 0 ELSE @,
            !.currentTime = 0,
            !.readyState = IF s.src = 0 THEN "empty" ELSE "loading"]

(* play(): refused at once when not allowed or when the source failed;    *)
(* otherwise playback that has ended seeks back to 0; paused becomes      *)
(* false and, if it was true, 'play' is queued at once; the 'timeupdate'  *)
(* of the seek is queued when the seek completes, after it.               *)
elPlay(s, allowed) ==
  IF ~allowed \/ s.readyState = "failed"
    THEN s
    ELSE [s EXCEPT !.paused = FALSE,
                   !.mediaEvents =
                     LET played == IF s.paused THEN Append(@, "play") ELSE @
                     IN IF s.readyState = "ready" /\ s.currentTime = Duration
                          THEN Append(played, "timeupdate") ELSE played,
                   !.currentTime = IF s.readyState = "ready" /\ @ = Duration THEN 0 ELSE @,
                   !.playPromises = IF s.readyState = "ready" THEN @ ELSE @ + 1]

(* pause(): paused becomes true, 'timeupdate' and 'pause' are queued as   *)
(* one task and pending play promises are rejected.                       *)
elPause(s) ==
  IF s.paused
    THEN s
    ELSE [s EXCEPT !.paused = TRUE,
                   !.mediaEvents = Append(@, "pause"),
                   !.playPromises = 0]

(* currentTime = t: the seek completes with a queued 'timeupdate'.        *)
elSeek(s, t) ==
  [s EXCEPT !.currentTime = t, !.mediaEvents = Append(@, "timeupdate")]

(* isFinite(audioElement.duration) *)
DurationFinite(s) == s.readyState = "ready"

(* The range input keeps its value on its step grid (step 1, 0..100).     *)
RangeValue(r) ==
  LET rounded == (2 * r[1] + r[2]) \div (2 * r[2])
  IN Max(0, Min(100, rounded))

(***************************************************************************)
(* UI helpers.  Of the DOM only what the script reads back or what gates  *)
(* an event is kept: seekBar.value and the track count that updateUI last *)
(* used for the disabled flags of the buttons and of the seek bar.        *)
(***************************************************************************)
updateUI(s) == [s EXCEPT !.uiTracks = Len(s.playlist)]

renderPlaylist(s) == updateUI(s)

(* updateSeekBar as it would be without the test of isSeeking: what C9    *)
(* excludes                                                                *)
updateSeekBarUnguarded(s) ==
  IF ~s.audioElement \/ ~DurationFinite(s)
    THEN s
    ELSE [s EXCEPT !.seekBarValue = RangeValue(Rat(s.currentTime * 100, Duration))]

updateSeekBar(s) ==
  IF ~s.audioElement \/ ~DurationFinite(s)
    THEN s
    ELSE IF ~s.isSeeking
      THEN [s EXCEPT !.seekBarValue = RangeValue(Rat(s.currentTime * 100, Duration))]
      ELSE s

(* part_002 and the bars variant test isSeeking in the first guard.       *)
updateSeekBarGuarded(s) ==
  IF s.isSeeking \/ ~s.audioElement \/ ~DurationFinite(s)
    THEN s
    ELSE [s EXCEPT !.seekBarValue = RangeValue(Rat(s.currentTime * 100, Duration))]

seekToPosition(s) ==
  IF ~s.audioElement \/ ~DurationFinite(s)
    THEN s
    ELSE elSeek(s, (s.seekBarValue * Duration) \div 100)

seekBy(s, deltaSeconds) ==
  IF ~s.audioElement \/ ~DurationFinite(s)
    THEN s
    ELSE elSeek(s, Max(0, Min(s.currentTime + deltaSeconds * 100, Duration)))

(***************************************************************************)
(* Lazy construction of the audio graph.  failAt names the construction   *)
(* step that throws (0: none):                                             *)
(*   1 new AudioContext()        2 new Audio() and its volume             *)
(*   3 createAnalyser, dataArray 4 createMediaElementSource, connect      *)
(*   5 wiring the five listeners                                           *)
(* Steps before the throwing one have taken effect when the catch runs.   *)
(***************************************************************************)
FailSteps == 0..5

Done(failAt, step) == failAt = 0 \/ failAt > step

(* unlockAndInitAudio as it would be without its first line: what C7     *)
(* excludes                                                                *)
unlockAndInitAudioUnguarded(s, failAt) ==
  [s EXCEPT !.audioContext = Done(failAt, 1),
            !.graphBuilds = IF Done(failAt, 1) THEN @ + 1 ELSE @,
            !.audioElement = Done(failAt, 2),
            !.analyser = Done(failAt, 3),
            !.dataArray = IF Done(failAt, 3) THEN ZeroFrame ELSE @,
            !.source = Done(failAt, 4),
            !.listeners = IF Done(failAt, 5) THEN @ + 1 ELSE @,
            !.initResult = IF failAt = 0 THEN "ready" ELSE "failed"]

(* unlockAndInitAudio as it would be with the listeners wired right after *)
(* the element is created, before the analyser: what C31 excludes.        *)
unlockAndInitAudioListenersFirst(s, failAt) ==
  IF s.audioContext
    THEN s
    ELSE [s EXCEPT !.audioContext = Done(failAt, 1),
                   !.graphBuilds = IF Done(failAt, 1) THEN @ + 1 ELSE @,
                   !.audioElement = Done(failAt, 2),
                   !.listeners = IF Done(failAt, 2) THEN @ + 1 ELSE @,
                   !.analyser = Done(failAt, 3),
                   !.dataArray = IF Done(failAt, 3) THEN ZeroFrame ELSE @,
                   !.source = Done(failAt, 4),
                   !.initResult = IF failAt = 0 THEN "ready" ELSE "failed"]

unlockAndInitAudio(s, failAt) ==
  IF s.audioContext
    THEN s
    ELSE [s EXCEPT !.audioContext = Done(failAt, 1),
                   !.graphBuilds = IF Done(failAt, 1) THEN @ + 1 ELSE @,
                   !.audioElement = Done(failAt, 2),
                   !.analyser = Done(failAt, 3),
                   !.dataArray = IF Done(failAt, 3) THEN ZeroFrame ELSE @,
                   !.source = Done(failAt, 4),
                   !.listeners = IF Done(failAt, 5) THEN @ + 1 ELSE @,
                   !.initResult = IF failAt = 0 THEN "ready" ELSE "failed"]

(* The bars variant builds its bars inside the same try block, after the  *)
(* source is connected and before the listeners are wired.                *)
unlockAndInitAudioBars(s, failAt) ==
  IF s.audioContext
    THEN s
    ELSE LET s1 == unlockAndInitAudio(s, failAt)
         IN IF Done(failAt, 4) THEN buildVisualizerBars(s1) ELSE s1

(***************************************************************************)
(* Playlist and transport.  A file is [name |-> <<stem, ext>>, size];     *)
(* a track is [name, size, url], url an object-URL id.                    *)
(***************************************************************************)
LowerExt(ext) == IF ext = "MP3" THEN "mp3" ELSE ext

(* /\.mp3$/i.test(file.name) *)
IsMp3(name) == LowerExt(name[2]) = "mp3"

KeyOf(item) == <<item.name, item.size>>

WrapIndex(s, index) ==
  IF index < 0 THEN Len(s.playlist) - 1
  ELSE IF index >= Len(s.playlist) THEN 0 ELSE index

(* loadTrack as it would be if an index out of range stopped at the      *)
(* nearest end of the playlist: what C36 excludes.                         *)
loadTrackClamped(s, index, allowed) ==
  IF Len(s.playlist) = 0 \/ ~s.audioContext
    THEN s
    ELSE LET i == Max(0, Min(Len(s.playlist) - 1, index))
             s1 == [s EXCEPT !.currentTrackIndex = i]
         IN IF ~s.audioElement
              THEN s1
              ELSE renderPlaylist(
                     elPlay(elLoad([s1 EXCEPT !.src = s.playlist[i + 1].url]), allowed))

loadTrack(s, index, allowed) ==
  IF Len(s.playlist) = 0 \/ ~s.audioContext
    THEN s
    ELSE LET i == WrapIndex(s, index)
             s1 == [s EXCEPT !.currentTrackIndex = i]
         IN IF ~s.audioElement
              THEN s1
              ELSE renderPlaylist(
                     elPlay(elLoad([s1 EXCEPT !.src = s.playlist[i + 1].url]), allowed))

(* script.js (bars): loadTrack itself calls unlockAndInitAudio.           *)
loadTrackBars(s, index, failAt, allowed) ==
  IF Len(s.playlist) = 0
    THEN s
    ELSE LET s0 == unlockAndInitAudioBars(s, failAt)
             i == WrapIndex(s0, index)
             s1 == [s0 EXCEPT !.currentTrackIndex = i]
         IN IF ~s0.audioElement
              THEN s1
              ELSE renderPlaylist(
                     elPlay(elLoad([s1 EXCEPT !.src = s0.playlist[i + 1].url]), allowed))

togglePlayPause(s, failAt, allowed) ==
  IF ~s.audioContext
    THEN IF Len(s.playlist) > 0
           THEN loadTrack(unlockAndInitAudio(s, failAt), 0, allowed)
           ELSE s
    ELSE IF ~s.audioElement
      THEN s
      ELSE IF s.paused THEN elPlay(s, allowed) ELSE elPause(s)

togglePlayPauseBars(s, failAt, allowed) ==
  IF ~s.audioContext
    THEN IF Len(s.playlist) > 0 THEN loadTrackBars(s, 0, failAt, allowed) ELSE s
    ELSE IF ~s.audioElement
      THEN s
      ELSE IF s.paused THEN elPlay(s, allowed) ELSE elPause(s)

(* stopPlaybackAndClear as it would be without `currentTrackIndex = -1`:  *)
(* what C30 excludes.                                                      *)
stopPlaybackAndClearKeepingIndex(s) ==
  LET s1 == IF s.audioElement THEN elLoad([elPause(s) EXCEPT !.src = 0]) ELSE s
      s2 == [s1 EXCEPT !.liveUrls = @ \ {s.playlist[k].url : k \in 1..Len(s.playlist)},
                       !.playlist = <<>>,
                       !.isPlaying = FALSE]
  IN [renderPlaylist(s2) EXCEPT !.seekBarValue = 0]

stopPlaybackAndClear(s) ==
  LET s1 == IF s.audioElement THEN elLoad([elPause(s) EXCEPT !.src = 0]) ELSE s
      s2 == [s1 EXCEPT !.liveUrls = @ \ {s.playlist[k].url : k \in 1..Len(s.playlist)},
                       !.playlist = <<>>,
                       !.currentTrackIndex = -1,
                       !.isPlaying = FALSE]
  IN [renderPlaylist(s2) EXCEPT !.seekBarValue = 0]

(* script.js (bars): pause only; the element keeps its source.            *)
clearPlaylist(s) ==
  LET s1 == IF s.audioElement THEN elPause(s) ELSE s
      s2 == [s1 EXCEPT !.liveUrls = @ \ {s.playlist[k].url : k \in 1..Len(s.playlist)},
                       !.playlist = <<>>,
                       !.currentTrackIndex = -1,
                       !.isPlaying = FALSE,
                       !.seekBarValue = 0]
  IN renderPlaylist(s2)

RECURSIVE PushFiles(_, _, _)
(* the for-loop of addFilesArrayToPlaylist; dedupe says whether the       *)
(* variant filters by extension and by name::size key                     *)
PushFiles(s, files, dedupe) ==
  IF files = <<>>
    THEN s
    ELSE LET file == Head(files)
             keys == {KeyOf(s.playlist[k]) : k \in 1..Len(s.playlist)}
             skip == dedupe /\ (~IsMp3(file.name) \/ KeyOf(file) \in keys)
             s1 == IF skip
                     THEN s
                     ELSE [s EXCEPT !.playlist = Append(@, [name |-> file.name,
                                                             size |-> file.size,
                                                             url |-> s.nextUrl]),
                                    !.liveUrls = @ \cup {s.nextUrl},
                                    !.nextUrl = @ + 1]
         IN PushFiles(s1, Tail(files), dedupe)

(* addFilesArrayToPlaylist as it would be without the extension test and *)
(* the key test: what C34 excludes.                                        *)
addFilesArrayToPlaylistUnfiltered(s, files, allowed) ==
  LET s1 == renderPlaylist(PushFiles(s, files, FALSE))
  IN IF s1.currentTrackIndex = -1 /\ Len(s1.playlist) > 0 THEN loadTrack(s1, 0, allowed) ELSE s1

addFilesArrayToPlaylist(s, files, allowed) ==
  LET s1 == renderPlaylist(PushFiles(s, files, TRUE))
  IN IF s1.currentTrackIndex = -1 /\ Len(s1.playlist) > 0 THEN loadTrack(s1, 0, allowed) ELSE s1

(* part_002: fileInput.onchange *)
addFilesToPlaylist(s, files, failAt, allowed) ==
  IF files = <<>>
    THEN s
    ELSE LET s1 == renderPlaylist(PushFiles(unlockAndInitAudio(s, failAt), files, FALSE))
         IN IF s1.currentTrackIndex = -1 /\ Len(s1.playlist) > 0
              THEN loadTrack(s1, 0, allowed)
              ELSE s1

(* script.js (bars): the files are appended, nothing is loaded *)
addFilesToPlaylistBars(s, files) ==
  IF files = <<>> THEN s ELSE renderPlaylist(PushFiles(s, files, FALSE))

RemoveAt(seq, k) == [j \in 1..(Len(seq) - 1) |-> IF j < k THEN seq[j] ELSE seq[j + 1]]

(* removeTrack as it would be without `currentTrackIndex -= 1`: what C32  *)
(* excludes.                                                               *)
removeTrackNoShift(s, index, allowed) ==
  IF index < 0 \/ index >= Len(s.playlist)
    THEN s
    ELSE LET removingCurrent == index = s.currentTrackIndex
             s1 == [s EXCEPT !.liveUrls = @ \ {s.playlist[index + 1].url},
                             !.playlist = RemoveAt(@, index + 1)]
         IN IF Len(s1.playlist) = 0
              THEN stopPlaybackAndClear(s1)
              ELSE IF removingCurrent
                THEN LET s2 == IF s1.currentTrackIndex >= Len(s1.playlist)
                                 THEN [s1 EXCEPT !.currentTrackIndex = 0]
                                 ELSE s1
                     IN loadTrack(s2, s2.currentTrackIndex, allowed)
                ELSE renderPlaylist(s1)

removeTrack(s, index, allowed) ==
  IF index < 0 \/ index >= Len(s.playlist)
    THEN s
    ELSE LET removingCurrent == index = s.currentTrackIndex
             s1 == [s EXCEPT !.liveUrls = @ \ {s.playlist[index + 1].url},
                             !.playlist = RemoveAt(@, index + 1)]
         IN IF Len(s1.playlist) = 0
              THEN stopPlaybackAndClear(s1)
              ELSE IF index < s.currentTrackIndex
                THEN renderPlaylist([s1 EXCEPT !.currentTrackIndex = @ - 1])
                ELSE IF removingCurrent
                  THEN LET s2 == IF s1.currentTrackIndex >= Len(s1.playlist)
                                   THEN [s1 EXCEPT !.currentTrackIndex = 0]
                                   ELSE s1
                       IN loadTrack(s2, s2.currentTrackIndex, allowed)
                  ELSE renderPlaylist(s1)

(***************************************************************************)
(* The state of the page.                                                  *)
(***************************************************************************)
VARIABLES
  variant,            \* which script runs on the page
  audioContext,       \* audioContext is set
  audioElement,       \* audioElement is set
  analyser,           \* analyser is set
  dataArray,          \* contents of dataArray, <<>> while unset
  source,             \* the media-element source node is connected
  listeners,          \* how many times the five media listeners were added
  graphBuilds,        \* how many AudioContext objects were constructed
  initResult,         \* outcome of the last run of unlockAndInitAudio's try
  playlist, currentTrackIndex, isPlaying, isSeeking,
  nextUrl,            \* id the next URL.createObjectURL returns
  liveUrls,           \* object URLs created and not revoked
  paused, src, readyState, currentTime, mediaEvents, playPromises,
  seekBarValue,       \* seekBar.value
  uiTracks,           \* playlist length at the last updateUI
  preset, sensitivity, particlesEnabled,
  particlesVisible,   \* particles.visible
  originalPositions,
  positions,          \* the position buffer of the mesh geometry
  color,              \* the mesh material colour
  webRotX, webRotY,   \* mesh rotation
  partRotY, partScale, partOpacity,
  bars,               \* scale.y of every bar (bars variant)
  frames,             \* animate invocations so far
  rafPending,         \* animate callbacks requested and not yet run
  polled,             \* the last animate called getByteFrequencyData
  polls,              \* calls of getByteFrequencyData so far
  container,          \* clientWidth, clientHeight of the canvas container
  cameraAspect, rendererSize,
  resolution,         \* resolution of the line material (web variant)
  web,                \* the variable web (particleSystem) holds a mesh
  sceneWebs,          \* line meshes that are children of the scene
  undisposed,          \* their geometry/material pairs created and not disposed
  particles,   \* the variable particles holds the ambient layer
  particleLayers,  \* ambient layers (THREE.Points) that are children of the scene
  pipelineCache,      \* worker: the pipeline cached under every key, 0 for none
  pipelineCalls,      \* worker: invocations of pipeline() per key
  pipelines,          \* worker: invocations of pipeline() in all
  requests,           \* worker: the activations of self.onmessage, in order of arrival
  posted,             \* worker: the statuses posted to the main thread
  backgroundParticles, \* background: the array particles
  windowSize,         \* background: windowWidth, windowHeight
  draws               \* background: calls of draw() so far

pageVars ==
  <<variant, audioContext, audioElement, analyser, dataArray, source, listeners,
    graphBuilds, initResult, playlist, currentTrackIndex, isPlaying, isSeeking,
    nextUrl, liveUrls, paused, src, readyState, currentTime, mediaEvents,
    playPromises, seekBarValue, uiTracks, preset, sensitivity, particlesEnabled,
    particlesVisible, originalPositions, positions, color, webRotX, webRotY,
    partRotY, partScale, partOpacity, bars, frames, rafPending, polled,
    polls, container, cameraAspect, rendererSize, resolution, web, sceneWebs,
    undisposed,
    particles,
    particleLayers>>

workerVars == <<pipelineCache, pipelineCalls, pipelines, requests, posted>>

backgroundVars == <<backgroundParticles, windowSize, draws>>

vars == <<pageVars, workerVars, backgroundVars>>

(* The current state as the record the operators work on.                 *)
Cur ==
  [variant |-> variant, audioContext |-> audioContext,
   audioElement |-> audioElement, analyser |-> analyser, dataArray |-> dataArray,
   source |-> source, listeners |-> listeners, graphBuilds |-> graphBuilds,
   initResult |-> initResult, playlist |-> playlist,
   currentTrackIndex |-> currentTrackIndex, isPlaying |-> isPlaying,
   isSeeking |-> isSeeking, nextUrl |-> nextUrl, liveUrls |-> liveUrls,
   paused |-> paused, src |-> src, readyState |-> readyState,
   currentTime |-> currentTime, mediaEvents |-> mediaEvents,
   playPromises |-> playPromises, seekBarValue |-> seekBarValue,
   uiTracks |-> uiTracks, preset |-> preset, sensitivity |-> sensitivity,
   particlesEnabled |-> particlesEnabled, particlesVisible |-> particlesVisible,
   originalPositions |-> originalPositions, positions |-> positions,
   color |-> color, webRotX |-> webRotX, webRotY |-> webRotY,
   partRotY |-> partRotY, partScale |-> partScale, partOpacity |-> partOpacity,
   bars |-> bars, frames |-> frames, rafPending |-> rafPending, polled |-> polled,
   polls |-> polls, container |-> container, cameraAspect |-> cameraAspect,
   rendererSize |-> rendererSize, resolution |-> resolution, web |-> web,
   sceneWebs |-> sceneWebs, undisposed |-> undisposed,
   particles |-> particles,
   particleLayers |-> particleLayers]

(* A handler ends in state n.  The bounds of the model are enforced here: *)
(* a handler whose result exceeds one is not taken.                       *)
Commit(n) ==
  /\ Len(n.mediaEvents) <= MaxQueue
  /\ n.nextUrl <= MaxUrls + 1
  /\ variant' = n.variant
  /\ audioContext' = n.audioContext
  /\ audioElement' = n.audioElement
  /\ analyser' = n.analyser
  /\ dataArray' = n.dataArray
  /\ source' = n.source
  /\ listeners' = n.listeners
  /\ graphBuilds' = n.graphBuilds
  /\ initResult' = n.initResult
  /\ playlist' = n.playlist
  /\ currentTrackIndex' = n.currentTrackIndex
  /\ isPlaying' = n.isPlaying
  /\ isSeeking' = n.isSeeking
  /\ nextUrl' = n.nextUrl
  /\ liveUrls' = n.liveUrls
  /\ paused' = n.paused
  /\ src' = n.src
  /\ readyState' = n.readyState
  /\ currentTime' = n.currentTime
  /\ mediaEvents' = n.mediaEvents
  /\ playPromises' = n.playPromises
  /\ seekBarValue' = n.seekBarValue
  /\ uiTracks' = n.uiTracks
  /\ preset' = n.preset
  /\ sensitivity' = n.sensitivity
  /\ particlesEnabled' = n.particlesEnabled
  /\ particlesVisible' = n.particlesVisible
  /\ originalPositions' = n.originalPositions
  /\ positions' = n.positions
  /\ color' = n.color
  /\ webRotX' = n.webRotX
  /\ webRotY' = n.webRotY
  /\ partRotY' = n.partRotY
  /\ partScale' = n.partScale
  /\ partOpacity' = n.partOpacity
  /\ bars' = n.bars
  /\ frames' = n.frames
  /\ rafPending' = n.rafPending
  /\ polled' = n.polled
  /\ polls' = n.polls
  /\ container' = n.container
  /\ cameraAspect' = n.cameraAspect
  /\ rendererSize' = n.rendererSize
  /\ resolution' = n.resolution
  /\ web' = n.web
  /\ sceneWebs' = n.sceneWebs
  /\ undisposed' = n.undisposed
  /\ particles' = n.particles
  /\ particleLayers' = n.particleLayers
  /\ UNCHANGED <<workerVars, backgroundVars>>

(***************************************************************************)
(* The state after init(): the scene is built, the handlers are wired,    *)
(* nothing is loaded.  init() ends by calling animate() itself: the first *)
(* frame has run and its requestAnimationFrame is the one pending         *)
(* invocation of the initial state.                                        *)
(***************************************************************************)
Variants == {"web", "sphere", "bars", "classic"}

(* clientWidth and clientHeight of the container when the page loads      *)
InitialSize == <<800, 600>>

(* w / h as JavaScript divides: 0/0 is NaN, w/0 is Infinity; both are     *)
(* kept as the unreduced pair                                             *)
Aspect(size) == IF size[2] = 0 THEN size ELSE Rat(size[1], size[2])

(* new PerspectiveCamera(75, w / h, ...), renderer.setSize(w, h)          *)
SizedViewport(s) == [s EXCEPT !.cameraAspect = Aspect(s.container), !.rendererSize = s.container]

Blank(v) ==
  [variant |-> v, audioContext |-> FALSE, audioElement |-> FALSE, analyser |-> FALSE,
   dataArray |-> <<>>, source |-> FALSE, listeners |-> 0, graphBuilds |-> 0,
   initResult |-> "none", playlist |-> <<>>, currentTrackIndex |-> -1,
   isPlaying |-> FALSE, isSeeking |-> FALSE, nextUrl |-> 1, liveUrls |-> {},
   paused |-> TRUE, src |-> 0, readyState |-> "empty", currentTime |-> 0,
   mediaEvents |-> <<>>, playPromises |-> 0, seekBarValue |-> 0, uiTracks |-> 0,
   preset |-> "none", sensitivity |-> RInt(60), particlesEnabled |-> FALSE,
   particlesVisible |-> FALSE, originalPositions |-> <<>>, positions |-> <<>>,
   color |-> Hex(0), webRotX |-> 0, webRotY |-> 0, partRotY |-> 0,
   partScale |-> RInt(1), partOpacity |-> <<3, 5>>, bars |-> <<>>, frames |-> 0,
   rafPending |-> 0, polled |-> FALSE, polls |-> 0,
   container |-> InitialSize, cameraAspect |-> RInt(1), rendererSize |-> <<0, 0>>,
   resolution |-> <<0, 0>>, web |-> FALSE, sceneWebs |-> 0, undisposed |-> 0,
   particles |-> FALSE,
   particleLayers |-> 0]

(* if (particles) return; otherwise a new THREE.Points, visible and of     *)
(* opacity 0.6, is added to the scene                                      *)
ensureParticlesLayer(s) ==
  IF s.particles THEN s
  ELSE [s EXCEPT !.particles = TRUE, !.particleLayers = @ + 1,
                 !.particlesVisible = TRUE, !.partOpacity = <<3, 5>>]

updateParticlesVisibility(s) ==
  IF s.particles THEN [s EXCEPT !.particlesVisible = s.particlesEnabled] ELSE s

initThree(s) ==
  updateParticlesVisibility(ensureParticlesLayer(
    [createVisualizerWeb(SizedViewport(s), "cosmic-grid") EXCEPT !.particlesEnabled = TRUE]))

initThreeSphere(s) ==
  [SizedViewport(s) EXCEPT !.preset = "sphere", !.originalPositions = SphereGeometry,
            !.positions = SphereGeometry, !.color = SphereColor,
            !.web = TRUE, !.sceneWebs = 1, !.undisposed = 1]

(* script.js:48-60 *)
initThreeClassic(s) == createVisualizerWebClassic(SizedViewport(s))

(***************************************************************************)
(* The render loop.  requestAnimationFrame(animate) queues one callback;  *)
(* the browser runs a queued callback when the next frame is due.         *)
(***************************************************************************)
(* a scheduler call that requests nothing: what C5 excludes               *)
requestAnimationFrameDropped(s) == s

requestAnimationFrame(s) == [s EXCEPT !.rafPending = @ + 1]

(* the browser takes the callback off its list and counts the frame       *)
FrameBegins(s) == [s EXCEPT !.rafPending = @ - 1, !.frames = @ + 1, !.polled = FALSE]

(* analyser.getByteFrequencyData(dataArray) fills dataArray in place      *)
getByteFrequencyData(s, data) ==
  [s EXCEPT !.dataArray = data, !.polled = TRUE, !.polls = @ + 1]

(* animate as it would be without the test of isPlaying and analyser:     *)
(* what C1 excludes.                                                       *)
animateAlwaysReactive(s, data) ==
  LET s1 == getByteFrequencyData(requestAnimationFrame(s), data)
  IN updateVisualizer([s1 EXCEPT !.webRotY = @ + 10, !.webRotX = @ + 5], s1.dataArray)

(* animate as it would be if the mesh turned in reactive frames only:     *)
(* what C14 excludes.                                                      *)
animateIdleStill(s, data) ==
  LET s1 == requestAnimationFrame(s)
      s2 == IF s1.particlesVisible THEN [s1 EXCEPT !.partRotY = @ - 4] ELSE s1
  IN IF s2.isPlaying /\ s2.analyser
       THEN LET s3 == getByteFrequencyData(s2, data)
            IN updateVisualizer([s3 EXCEPT !.webRotY = @ + 10, !.webRotX = @ + 5],
                                s3.dataArray)
       ELSE s2

animate(s, data) ==
  LET s1 == requestAnimationFrame(s)
      s2 == [s1 EXCEPT !.webRotY = @ + (IF s.preset = "wave-tunnel" THEN 20 ELSE 10),
                       !.webRotX = @ + 5]
      s3 == IF s2.particlesVisible THEN [s2 EXCEPT !.partRotY = @ - 4] ELSE s2
  IN IF s3.isPlaying /\ s3.analyser
       THEN LET s4 == getByteFrequencyData(s3, data)
            IN updateVisualizer(s4, s4.dataArray)
       ELSE s3

(* part_002 *)
animateSphere(s, data) ==
  LET s1 == requestAnimationFrame(s)
  IN IF s1.isPlaying /\ s1.analyser
       THEN LET s2 == getByteFrequencyData(s1, data)
            IN updateVisualizerWeb(s2, s2.dataArray)
       ELSE [s1 EXCEPT !.webRotY = @ + 5]

(* script.js, bars *)
animateBars(s, data) ==
  LET s1 == requestAnimationFrame(s)
  IN IF s1.isPlaying /\ s1.analyser
       THEN LET s2 == getByteFrequencyData(s1, data)
            IN updateVisualizerBars(s2, s2.dataArray)
       ELSE s1

(* script.js:166-180 *)
animateClassic(s, data) ==
  LET s1 == requestAnimationFrame(s)
      s2 == IF s1.web THEN [s1 EXCEPT !.webRotY = @ + 10, !.webRotX = @ + 5] ELSE s1
  IN IF s2.isPlaying /\ s2.analyser
       THEN LET s3 == getByteFrequencyData(s2, data)
            IN updateVisualizerClassic(s3, s3.dataArray)
       ELSE s2

animateOf(s, data) ==
  CASE s.variant = "web" -> animate(s, data)
    [] s.variant = "sphere" -> animateSphere(s, data)
    [] s.variant = "classic" -> animateClassic(s, data)
    [] OTHER -> animateBars(s, data)

(* init(): the scene is built, the UI is updated, and init ends by        *)
(* calling animate() itself: when init returns the first frame has run,   *)
(* idle, and has requested the next.                                       *)
InitialState(v) ==
  LET built == CASE v = "web" -> updateUI(initThree(Blank(v)))
                 [] v = "sphere" -> updateUI(initThreeSphere(Blank(v)))
                 [] v = "classic" -> updateUI(initThreeClassic(Blank(v)))
                 [] OTHER -> renderPlaylist(SizedViewport(Blank(v)))
  IN animateOf([built EXCEPT !.frames = @ + 1], ZeroFrame)

Start(n) ==
  /\ variant = n.variant
  /\ audioContext = n.audioContext
  /\ audioElement = n.audioElement
  /\ analyser = n.analyser
  /\ dataArray = n.dataArray
  /\ source = n.source
  /\ listeners = n.listeners
  /\ graphBuilds = n.graphBuilds
  /\ initResult = n.initResult
  /\ playlist = n.playlist
  /\ currentTrackIndex = n.currentTrackIndex
  /\ isPlaying = n.isPlaying
  /\ isSeeking = n.isSeeking
  /\ nextUrl = n.nextUrl
  /\ liveUrls = n.liveUrls
  /\ paused = n.paused
  /\ src = n.src
  /\ readyState = n.readyState
  /\ currentTime = n.currentTime
  /\ mediaEvents = n.mediaEvents
  /\ playPromises = n.playPromises
  /\ seekBarValue = n.seekBarValue
  /\ uiTracks = n.uiTracks
  /\ preset = n.preset
  /\ sensitivity = n.sensitivity
  /\ particlesEnabled = n.particlesEnabled
  /\ particlesVisible = n.particlesVisible
  /\ originalPositions = n.originalPositions
  /\ positions = n.positions
  /\ color = n.color
  /\ webRotX = n.webRotX
  /\ webRotY = n.webRotY
  /\ partRotY = n.partRotY
  /\ partScale = n.partScale
  /\ partOpacity = n.partOpacity
  /\ bars = n.bars
  /\ frames = n.frames
  /\ rafPending = n.rafPending
  /\ polled = n.polled
  /\ polls = n.polls
  /\ container = n.container
  /\ cameraAspect = n.cameraAspect
  /\ rendererSize = n.rendererSize
  /\ resolution = n.resolution
  /\ web = n.web
  /\ sceneWebs = n.sceneWebs
  /\ undisposed = n.undisposed
  /\ particles = n.particles
  /\ particleLayers = n.particleLayers

(***************************************************************************)
(* The transcription workers (part_001, part_003).  A worker handles one  *)
(* message at a time until the handler awaits; while a handler awaits the *)
(* model load or the transcription, the worker takes the next message.    *)
(* A request is the activation of self.onmessage for one message: pc is   *)
(* the await it is suspended at, pipeline the object it awaits or holds.  *)
(* Pipelines are numbered in the order pipeline() was invoked.  The       *)
(* progress messages of the library are not modelled.                     *)
(***************************************************************************)
MaxRequests == 2

(* progress messages of one kind per request                              *)
MaxProgress == 1

WorkerVariants == {"worker-cache", "worker-singleton"}

TASK == "automatic-speech-recognition"

Models == {"Xenova/whisper-tiny.en", "Xenova/whisper-base"}

(* event.data.device: "" stands for a missing (falsy) device               *)
Devices == {"", "auto", "webgpu"}

(* `${TASK}|${model}|${device || 'auto'}` *)
cacheKey(model, device) ==
  TASK \o "|" \o model \o "|" \o (IF device = "" THEN "auto" ELSE device)

(* the slot the singleton worker keeps its one pipeline in                *)
instance == "instance"

Keys == {cacheKey(model, device) : model \in Models, device \in Devices} \cup {instance}

WorkerCur ==
  [pipelineCache |-> pipelineCache, pipelineCalls |-> pipelineCalls,
   pipelines |-> pipelines, requests |-> requests, posted |-> posted]

CommitWorker(n) ==
  /\ pipelineCache' = n.pipelineCache
  /\ pipelineCalls' = n.pipelineCalls
  /\ pipelines' = n.pipelines
  /\ requests' = n.requests
  /\ posted' = n.posted
  /\ UNCHANGED <<pageVars, backgroundVars>>

(* the worker module is evaluated: an empty cache, no instance            *)
WorkerLoaded ==
  [pipelineCache |-> [k \in Keys |-> 0], pipelineCalls |-> [k \in Keys |-> 0],
   pipelines |-> 0, requests |-> <<>>, posted |-> <<>>]

StartWorker(n) ==
  /\ pipelineCache = n.pipelineCache
  /\ pipelineCalls = n.pipelineCalls
  /\ pipelines = n.pipelines
  /\ requests = n.requests
  /\ posted = n.posted

(* self.postMessage({ status, ... }); the model notes beside the status   *)
(* which activation of self.onmessage posted it                            *)
postMessage(w, i, status) == [w EXCEPT !.posted = Append(@, <<i, status>>)]

(* pipeline(task, model, opts) is invoked and returns a promise           *)
pipeline(w, key) ==
  [w EXCEPT !.pipelineCalls[key] = @ + 1, !.pipelines = @ + 1]

(* the handler from `const transcriber = await ...` on: it posts          *)
(* 'transcribing' and awaits the transcription                             *)
transcribe(w, i, transcriber) ==
  [postMessage(w, i, "transcribing") EXCEPT !.requests[i].pc = "transcribing",
                                            !.requests[i].pipeline = transcriber]

(* getTranscriber / getInstance up to their await: the cache is tested,   *)
(* and on a miss pipeline() is invoked and awaited.  On a hit the handler *)
(* goes on with the cached pipeline before any other message is taken.    *)
getTranscriber(w, key) ==
  LET i == Len(w.requests) + 1
  IN IF w.pipelineCache[key] = 0
       THEN LET w1 == pipeline(w, key)
            IN [w1 EXCEPT !.requests =
                            Append(@, [key |-> key, pc |-> "loading",
                                       pipeline |-> w1.pipelines])]
       ELSE transcribe([w EXCEPT !.requests =
                                   Append(@, [key |-> key, pc |-> "cached",
                                              pipeline |-> w.pipelineCache[key]])],
                       i, w.pipelineCache[key])

(* event.data.audio is a transferred ArrayBuffer, given by its byte       *)
(* length; new Float32Array(audio) throws a RangeError unless the length  *)
(* is a multiple of 4                                                      *)
AudioByteLengths == {8, 6}

(* self.onmessage of part_001.  The Float32Array is constructed inside    *)
(* the try and before the first post: if it throws, the catch posts       *)
(* 'error' and the handler ends with no pipeline asked for.               *)
onmessage(w, model, device, byteLength) ==
  LET i == Len(w.requests) + 1
  IN IF byteLength % 4 # 0
       THEN [postMessage(w, i, "error") EXCEPT
               !.requests = Append(@, [key |-> cacheKey(model, device),
                                       pc |-> "failed", pipeline |-> 0])]
       ELSE getTranscriber(postMessage(w, i, "loading_model"),
                           cacheKey(model, device))

(* self.onmessage of part_003: event.data.audio is handed to the          *)
(* pipeline as it is, model and device of the message are not read        *)
onmessageSingleton(w) ==
  getTranscriber(postMessage(w, Len(w.requests) + 1, "loading_model"), instance)

(* pipelineSettled as it would be if the rejection were caught around the *)
(* load alone and the handler went on: what C37 excludes.                 *)
pipelineSettledGoingOn(w, i, ok) ==
  LET r == w.requests[i]
      w1 == [w EXCEPT !.pipelineCache[r.key] = r.pipeline]
  IN IF ok THEN transcribe(w1, i, w1.pipelineCache[r.key])
     ELSE transcribe(postMessage(w, i, "error"), i, w.pipelineCache[r.key])

(* the awaited pipeline() of request i resolves: the pipeline is stored   *)
(* under the key, read back and used; or it rejects and the catch posts   *)
(* the error                                                               *)
pipelineSettled(w, i, ok) ==
  LET r == w.requests[i]
      w1 == [w EXCEPT !.pipelineCache[r.key] = r.pipeline]
  IN IF ok THEN transcribe(w1, i, w1.pipelineCache[r.key])
     ELSE [postMessage(w, i, "error") EXCEPT !.requests[i].pc = "failed"]

(* the awaited transcription of request i resolves or rejects             *)
transcriberSettled(w, i, ok) ==
  [postMessage(w, i, IF ok THEN "complete" ELSE "error")
     EXCEPT !.requests[i].pc = IF ok THEN "done" ELSE "failed"]

(* the progress callbacks post while their await is pending: the one      *)
(* given to pipeline() during the load, callback_function during the      *)
(* transcription                                                           *)
onModelProgress(w, i) == postMessage(w, i, "model_progress")

onTranscribeProgress(w, i) == postMessage(w, i, "transcribe_progress")

(* how many times activation i has posted status                          *)
Posts(w, i, status) ==
  Cardinality({k \in 1..Len(w.posted) : w.posted[k] = <<i, status>>})

(* worker.postMessage({ audio, model, device }) from the main thread      *)
OnMessage ==
  /\ variant = "worker-cache"
  /\ Len(requests) < MaxRequests
  /\ \E model \in Models, device \in Devices, byteLength \in AudioByteLengths :
       CommitWorker(onmessage(WorkerCur, model, device, byteLength))

OnMessageSingleton ==
  /\ variant = "worker-singleton"
  /\ Len(requests) < MaxRequests
  /\ CommitWorker(onmessageSingleton(WorkerCur))

PipelineSettled ==
  \E i \in 1..Len(requests), ok \in BOOLEAN :
    /\ requests[i].pc = "loading"
    /\ CommitWorker(pipelineSettled(WorkerCur, i, ok))

TranscriberSettled ==
  \E i \in 1..Len(requests), ok \in BOOLEAN :
    /\ requests[i].pc = "transcribing"
    /\ CommitWorker(transcriberSettled(WorkerCur, i, ok))

(* the library reports progress of a load that is under way               *)
ModelProgress ==
  \E i \in 1..Len(requests) :
    /\ requests[i].pc = "loading"
    /\ Posts(WorkerCur, i, "model_progress") < MaxProgress
    /\ CommitWorker(onModelProgress(WorkerCur, i))

(* the pipeline reports progress of a transcription that is under way     *)
TranscribeProgress ==
  \E i \in 1..Len(requests) :
    /\ requests[i].pc = "transcribing"
    /\ Posts(WorkerCur, i, "transcribe_progress") < MaxProgress
    /\ CommitWorker(onTranscribeProgress(WorkerCur, i))

(***************************************************************************)
(* The particle background (p5-background.js).  Lengths are whole numbers *)
(* of half pixels, so that a step of CONFIG.speed = 0.5 pixel along an    *)
(* axis is one unit.  A particle is the record of its x, y, r and         *)
(* connections.  Colours, trails and the theme belong to the rendering    *)
(* and are not modelled; reducedMotion is false.                          *)
(***************************************************************************)
MaxDraws == 2

maxConnectionsPerParticle == 3

HalfPixels(px) == 2 * px

connectionRadius == HalfPixels(110)

(* new SpatialGrid(CONFIG.connectionRadius * 0.8) *)
cellSize == (4 * connectionRadius) \div 5

(* the distance a particle moves in one step: CONFIG.speed                *)
speed == HalfPixels(1) \div 2

(* windowWidth, windowHeight in pixels                                     *)
WindowSizes == {<<800, 600>>, <<1280, 720>>}

(* Math.round(constrain(areaK * densityBase, 30, 160)) *)
desiredParticleCount(size) ==
  LET base == Rat(size[1] * size[2] * 45, 1000 * 1000)
      constrained == IF RLess(base, RInt(30)) THEN RInt(30)
                     ELSE IF RLess(RInt(160), base) THEN RInt(160) ELSE base
  IN (2 * constrained[1] + constrained[2]) \div (2 * constrained[2])

(* The positions random(width), random(height) hand out, as arrangements  *)
(* of the particles in pixels: a lattice wider than the connection        *)
(* radius, pairs, five particles in a row 10 pixels apart below the       *)
(* lattice, and a scatter.  i counts the particles from 0.                *)
Arrangements == {"lattice", "pairs", "cluster", "scattered"}

Lattice(i) == <<20 + 130 * (i % 6), 20 + 115 * (i \div 6)>>

PositionOf(arrangement, i, size) ==
  CASE arrangement = "lattice" -> Lattice(i)
    [] arrangement = "pairs" ->
         <<Lattice(i - (i % 2))[1] + 50 * (i % 2), Lattice(i - (i % 2))[2]>>
    [] arrangement = "cluster" ->
         IF i < 5 THEN <<300 + 10 * i, 595>> ELSE Lattice(i)
    [] OTHER -> <<(137 * i + 11) % size[1], (251 * i + 7) % size[2]>>

(* new Particle() *)
Particle(arrangement, i, size) ==
  [x |-> HalfPixels(PositionOf(arrangement, i, size)[1]),
   y |-> HalfPixels(PositionOf(arrangement, i, size)[2]),
   r |-> HalfPixels(2),
   connections |-> 0]

rebuildParticles(count, arrangement, size) ==
  [i \in 1..count |-> Particle(arrangement, i - 1, size)]

(* the directions the noise field sends a particle in: along the axes     *)
Headings == 0..3

(* Particle.step: one move and the wrap-around at the edges               *)
step(p, heading, size) ==
  LET width == HalfPixels(size[1])
      height == HalfPixels(size[2])
      x1 == p.x + (CASE heading = 0 -> speed [] heading = 2 -> -speed [] OTHER -> 0)
      y1 == p.y + (CASE heading = 1 -> speed [] heading = 3 -> -speed [] OTHER -> 0)
      x2 == IF x1 < -p.r THEN width + p.r ELSE x1
      x3 == IF x2 > width + p.r THEN -p.r ELSE x2
      y2 == IF y1 < -p.r THEN height + p.r ELSE y1
      y3 == IF y2 > height + p.r THEN -p.r ELSE y2
  IN [p EXCEPT !.x = x3, !.y = y3]

(* SpatialGrid.insert: the cell of a particle *)
CellOf(p) == <<p.x \div cellSize, p.y \div cellSize>>

(* the bucket of a cell: the particles inserted into it, in the order of  *)
(* insertion (the order of the array)                                      *)
Bucket(cells, cell) ==
  SelectSeq([j \in 1..Len(cells) |-> j], LAMBDA j : cells[j] = cell)

(* SpatialGrid.neighbors: the buckets of the nine cells around, dy outer  *)
(* and dx inner                                                            *)
CellOffsets ==
  <<<<-1, -1>>, <<0, -1>>, <<1, -1>>, <<-1, 0>>, <<0, 0>>, <<1, 0>>,
    <<-1, 1>>, <<0, 1>>, <<1, 1>>>>

RECURSIVE NeighborsFrom(_, _, _)
NeighborsFrom(cells, i, k) ==
  IF k > Len(CellOffsets) THEN <<>>
  ELSE Bucket(cells, <<cells[i][1] + CellOffsets[k][1], cells[i][2] + CellOffsets[k][2]>>)
         \o NeighborsFrom(cells, i, k + 1)

neighbors(cells, i) == NeighborsFrom(cells, i, 1)

(* the inner loop of draw: particle i takes the neighbours nb[k], ...     *)
(* while made < maxConnectionsPerParticle; c holds the connection counts  *)
RECURSIVE connectFrom(_, _, _, _, _, _)
connectFrom(c, ps, i, nb, k, made) ==
  IF k > Len(nb) \/ made >= maxConnectionsPerParticle THEN c
  ELSE LET q == nb[k]
           dx == ps[i].x - ps[q].x
           dy == ps[i].y - ps[q].y
       IN IF q = i \/ c[q] >= maxConnectionsPerParticle
            THEN connectFrom(c, ps, i, nb, k + 1, made)
          ELSE IF dx * dx + dy * dy > connectionRadius * connectionRadius
            THEN connectFrom(c, ps, i, nb, k + 1, made)
          ELSE connectFrom([c EXCEPT ![i] = @ + 1, ![q] = @ + 1], ps, i, nb, k + 1, made + 1)

(* the outer loop of draw over the particles from i on                    *)
RECURSIVE connectAll(_, _, _, _)
connectAll(c, ps, cells, i) ==
  IF i > Len(ps) THEN c
  ELSE connectAll(IF c[i] >= maxConnectionsPerParticle THEN c
                  ELSE connectFrom(c, ps, i, neighbors(cells, i), 1, 0),
                  ps, cells, i + 1)

(* draw(): the grid is rebuilt from the positions before the step, the    *)
(* particles step, and the connections are made between the positions     *)
(* after it                                                                *)
draw(ps, turn, size) ==
  LET cells == [i \in 1..Len(ps) |-> CellOf(ps[i])]
      moved == [i \in 1..Len(ps) |->
                  step([ps[i] EXCEPT !.connections = 0], (turn + i) % 4, size)]
      c == connectAll([i \in 1..Len(ps) |-> 0], moved, cells, 1)
  IN [i \in 1..Len(ps) |-> [moved[i] EXCEPT !.connections = c[i]]]

CommitBackground(ps, size, n) ==
  /\ backgroundParticles' = ps
  /\ windowSize' = size
  /\ draws' = n
  /\ UNCHANGED <<pageVars, workerVars>>

(* before setup() *)
NoBackground ==
  /\ backgroundParticles = <<>>
  /\ windowSize = <<0, 0>>
  /\ draws = 0

(* setup() *)
setup(size, arrangement) ==
  /\ backgroundParticles = rebuildParticles(desiredParticleCount(size), arrangement, size)
  /\ windowSize = size
  /\ draws = 0

(* one frame of the p5 loop; turn selects the directions of the noise     *)
(* field, which differ from particle to particle                           *)
Draw ==
  /\ variant = "background"
  /\ draws < MaxDraws
  /\ \E turn \in Headings :
       CommitBackground(draw(backgroundParticles, turn, windowSize), windowSize, draws + 1)

WindowResized ==
  /\ variant = "background"
  /\ \E size \in WindowSizes, arrangement \in Arrangements :
       CommitBackground(rebuildParticles(desiredParticleCount(size), arrangement, size),
                        size, draws)

(***************************************************************************)
(* The initial states.  A page runs one page script; the workers are      *)
(* loaded and idle, and the background has not been set up.  A worker or  *)
(* the background runs without a page script.                             *)
(***************************************************************************)
Init ==
  /\ \E v \in Variants : Start(InitialState(v))
  /\ StartWorker(WorkerLoaded)
  /\ NoBackground

InitWorker ==
  /\ \E v \in WorkerVariants : Start(Blank(v))
  /\ StartWorker(WorkerLoaded)
  /\ NoBackground

InitBackground ==
  /\ Start(Blank("background"))
  /\ StartWorker(WorkerLoaded)
  /\ \E size \in WindowSizes, arrangement \in Arrangements : setup(size, arrangement)

(* One frame: the pending callback runs.  The analyser delivers one of    *)
(* `spectra`; a frame that does not poll it receives nothing.  limit      *)
(* bounds the number of frames of a run.                                  *)
Animate(spectra, limit) ==
  /\ rafPending > 0
  /\ frames < limit
  /\ \E data \in (IF isPlaying /\ analyser THEN spectra ELSE {ZeroFrame}) :
       Commit(animateOf(FrameBegins(Cur), data))

(***************************************************************************)
(* Media events.  The five listeners run only if they were added.         *)
(***************************************************************************)
updateSeekBarOf(s) ==
  IF s.variant \in {"web", "classic"} THEN updateSeekBar(s) ELSE updateSeekBarGuarded(s)

loadTrackOf(s, index, failAt, allowed) ==
  IF s.variant = "bars"
    THEN loadTrackBars(s, index, failAt, allowed)
    ELSE loadTrack(s, index, allowed)

onPlay(s) == updateUI(renderPlaylist([s EXCEPT !.isPlaying = TRUE]))

onPause(s) == updateUI(renderPlaylist([s EXCEPT !.isPlaying = FALSE]))

(* the listeners exist only after the graph was built: the bars variant's *)
(* loadTrack finds audioContext set                                       *)
onEnded(s, allowed) == loadTrackOf(s, s.currentTrackIndex + 1, 0, allowed)

Heard(s, t) == IF s.listeners > 0 THEN t ELSE s

Dequeued(s) == [s EXCEPT !.mediaEvents = Tail(@)]

(* the task at the head of the element's event queue runs                 *)
OnPlay ==
  /\ mediaEvents # <<>> /\ Head(mediaEvents) = "play"
  /\ Commit(Heard(Dequeued(Cur), onPlay(Dequeued(Cur))))

(* the task queued by pause() fires 'timeupdate', then 'pause'            *)
OnPause ==
  /\ mediaEvents # <<>> /\ Head(mediaEvents) = "pause"
  /\ Commit(Heard(Dequeued(Cur), onPause(updateSeekBarOf(Dequeued(Cur)))))

OnTimeUpdate ==
  /\ mediaEvents # <<>> /\ Head(mediaEvents) = "timeupdate"
  /\ Commit(Heard(Dequeued(Cur), updateSeekBarOf(Dequeued(Cur))))

(* The resource's metadata arrives: the duration becomes known, pending   *)
(* play promises resolve, 'loadedmetadata' fires.                         *)
OnLoadedMetadata ==
  /\ readyState = "loading"
  /\ LET s1 == [Cur EXCEPT !.readyState = "ready", !.playPromises = 0]
     IN Commit(Heard(s1, updateSeekBarOf(s1)))

(* The resource cannot be decoded: pending play promises are rejected and *)
(* 'error' fires, for which the script has no listener.  paused is left   *)
(* as it is and no 'pause' event is fired.                                *)
LoadError ==
  /\ readyState = "loading"
  /\ Commit([Cur EXCEPT !.readyState = "failed", !.playPromises = 0])

(* Playback advances by one step and 'timeupdate' fires.  On reaching the *)
(* end one task fires 'timeupdate', sets paused and fires 'pause', then   *)
(* fires 'ended'; the page is playing already, so the play() of the       *)
(* 'ended' listener is within the autoplay policy.                        *)
PlaybackTick ==
  /\ ~paused /\ readyState = "ready" /\ currentTime < Duration
  /\ LET s1 == [Cur EXCEPT !.currentTime = @ + TimeStep]
         s2 == Heard(s1, updateSeekBarOf(s1))
     IN IF s1.currentTime < Duration
          THEN Commit(s2)
          ELSE LET s3 == [s2 EXCEPT !.paused = TRUE]
               IN Commit(Heard(s3, onEnded(onPause(s3), TRUE)))

(***************************************************************************)
(* Inputs of the user-driven handlers.                                     *)
(***************************************************************************)
FileA == [name |-> <<"a", "mp3">>, size |-> 1]

FileB == [name |-> <<"b", "MP3">>, size |-> 2]

FileC == [name |-> <<"c", "wav">>, size |-> 3]

(* the name of FileA in capitals: another key, the same name to a sort    *)
(* that ignores case                                                       *)
FileD == [name |-> <<"A", "mp3">>, size |-> 1]

Batches == {<<FileA>>, <<FileB>>}

(* where the user may drag the thumb of the seek bar                      *)
SeekInputs == {50}

(* e.detail of a visualizer:sensitivity event, tagged with its typeof;     *)
(* typeof NaN is 'number'                                                  *)
SensitivityDetails ==
  {<<"number", RInt(-20)>>, <<"number", RInt(35)>>, <<"number", RInt(180)>>,
   <<"number", NaN>>, <<"string", "loud">>}

(* e.detail of a visualizer:preset event, as its sequence of characters;  *)
(* <<>> is the empty string and a missing detail, which `e.detail || ''`  *)
(* makes the empty string                                                  *)
PresetDetails ==
  { <<"w", "a", "v", "e", "-", "t", "u", "n", "n", "e", "l">>,
    <<"P", "a", "r", "t", "i", "c", "l", "e", "-", "B", "u", "r", "s", "t">>,
    <<"C", "O", "S", "M", "I", "C", "-", "G", "R", "I", "D">>,
    <<"s", "p", "i", "r", "a", "l">>,
    <<>> }

UpperLetters ==
  <<"A", "B", "C", "D", "E", "F", "G", "H", "I", "J", "K", "L", "M",
    "N", "O", "P", "Q", "R", "S", "T", "U", "V", "W", "X", "Y", "Z">>

LowerLetters ==
  <<"a", "b", "c", "d", "e", "f", "g", "h", "i", "j", "k", "l", "m",
    "n", "o", "p", "q", "r", "s", "t", "u", "v", "w", "x", "y", "z">>

(* String.prototype.toLowerCase, character by character *)
ToLowerCase(str) ==
  [k \in 1..Len(str) |->
     IF \E u \in 1..26 : UpperLetters[u] = str[k]
       THEN LowerLetters[CHOOSE u \in 1..26 : UpperLetters[u] = str[k]]
       ELSE str[k]]

(* the characters as one string, to compare with the preset ids           *)
RECURSIVE Text(_)
Text(chars) == IF chars = <<>> THEN "" ELSE chars[1] \o Text(Tail(chars))

IsNumber(detail) == detail[1] = "number"

(* Math.min(Math.max(n, a), b): NaN for NaN                                *)
clamp(n, a, b) == RMin(RMax(n, a), b)

(* the 'visualizer:sensitivity' listener *)
onSensitivity(s, detail) ==
  IF IsNumber(detail)
    THEN [s EXCEPT !.sensitivity = clamp(detail[2], RInt(0), RInt(100))]
    ELSE s

(* the listener as it would be without the test of the id: what C18       *)
(* excludes.                                                               *)
onPresetUnchecked(s, detail) == createVisualizerWeb(s, Text(ToLowerCase(detail)))

(* the 'visualizer:preset' listener *)
onPreset(s, detail) ==
  LET next == Text(ToLowerCase(detail))
  IN IF next \in Presets THEN createVisualizerWeb(s, next) ELSE s

(* a.name.localeCompare(b.name, undefined, { sensitivity: 'base' }) for    *)
(* the names of the model: the letter of the stem without its case, then  *)
(* the extension without its case; negative, zero or positive             *)
LetterRank(ch) == CHOOSE u \in 1..26 : LowerLetters[u] = ToLowerCase(<<ch>>)[1]

ExtRank(ext) == IF LowerExt(ext) = "mp3" THEN 1 ELSE 2

localeCompare(a, b) ==
  IF LetterRank(a[1]) # LetterRank(b[1]) THEN LetterRank(a[1]) - LetterRank(b[1])
  ELSE ExtRank(a[2]) - ExtRank(b[2])

(* Array.prototype.sort with that comparison; the sort is stable          *)
RECURSIVE InsertSorted(_, _)
InsertSorted(sorted, item) ==
  IF sorted = <<>> THEN <<item>>
  ELSE IF localeCompare(item.name, Head(sorted).name) < 0 THEN <<item>> \o sorted
  ELSE <<Head(sorted)>> \o InsertSorted(Tail(sorted), item)

RECURSIVE sort(_)
sort(list) ==
  IF list = <<>> THEN <<>>
  ELSE InsertSorted(sort(SubSeq(list, 1, Len(list) - 1)), list[Len(list)])

(* playlist.indexOf(track): tracks are told apart by their object URL     *)
indexOf(list, track) ==
  IF \E k \in 1..Len(list) : list[k].url = track.url
    THEN (CHOOSE k \in 1..Len(list) : list[k].url = track.url) - 1
    ELSE -1

(* the 'playlist:sort' listener as it would be without re-pointing        *)
(* currentTrackIndex: what C33 excludes.                                   *)
onPlaylistSortKeepingIndex(s) ==
  IF Len(s.playlist) = 0
    THEN s
    ELSE renderPlaylist([s EXCEPT !.playlist = sort(s.playlist)])

(* the 'playlist:sort' listener *)
onPlaylistSort(s) ==
  IF Len(s.playlist) = 0
    THEN s
    ELSE LET hasCurrent == s.currentTrackIndex >= 0 /\ s.currentTrackIndex < Len(s.playlist)
             sorted == sort(s.playlist)
             newIdx == IF hasCurrent
                         THEN indexOf(sorted, s.playlist[s.currentTrackIndex + 1])
                         ELSE -1
         IN renderPlaylist([s EXCEPT !.playlist = sorted,
                                     !.currentTrackIndex = IF newIdx # -1 THEN newIdx ELSE @])

(* The construction step that throws, for a handler that reaches          *)
(* unlockAndInitAudio: nothing is drawn once the guard returns early.     *)
Failures(failSteps) == IF audioContext THEN {0} ELSE failSteps

(***************************************************************************)
(* Handlers of the web variant (part_000).                                 *)
(***************************************************************************)
(* window 'files:added' *)
FilesAdded(batches, failSteps) ==
  /\ variant = "web"
  /\ \E files \in batches, failAt \in Failures(failSteps), allowed \in BOOLEAN :
       Commit(addFilesArrayToPlaylist(unlockAndInitAudio(Cur, failAt), files, allowed))

(* playPauseButton.onclick, keys ' ' and 'k': the keys work with the      *)
(* button disabled                                                         *)
PlayPause(failSteps) ==
  /\ variant = "web"
  /\ \E failAt \in Failures(failSteps), allowed \in BOOLEAN :
       Commit(togglePlayPause(Cur, failAt, allowed))

(* skip buttons, keys 'n' and 'p' *)
Skip ==
  /\ variant = "web"
  /\ \E delta \in {-1, 1}, allowed \in BOOLEAN :
       Commit(loadTrack(Cur, currentTrackIndex + delta, allowed))

(* click on the remove button of a rendered row *)
RemoveClick ==
  /\ variant = "web"
  /\ \E index \in 0..(uiTracks - 1), allowed \in BOOLEAN :
       Commit(removeTrack(Cur, index, allowed))

(* window 'playlist:clear' *)
PlaylistClear ==
  /\ variant = "web"
  /\ Commit(stopPlaybackAndClear(Cur))

(* window 'playlist:sort' *)
PlaylistSort ==
  /\ variant = "web"
  /\ Commit(onPlaylistSort(Cur))

(* keys ArrowLeft and ArrowRight *)
SeekKey ==
  /\ variant = "web"
  /\ \E deltaSeconds \in {-5, 5} : Commit(seekBy(Cur, deltaSeconds))

(* window 'visualizer:sensitivity' *)
SensitivityEvent ==
  /\ variant = "web"
  /\ \E detail \in SensitivityDetails : Commit(onSensitivity(Cur, detail))

(* window 'visualizer:particles' *)
ParticlesEvent ==
  /\ variant = "web"
  /\ \E detail \in BOOLEAN :
       Commit(updateParticlesVisibility([Cur EXCEPT !.particlesEnabled = detail]))

(* window 'visualizer:preset' *)
PresetEvent ==
  /\ variant = "web"
  /\ \E detail \in PresetDetails : Commit(onPreset(Cur, detail))

(***************************************************************************)
(* Handlers every variant has.  updateUI disables the seek bar and the    *)
(* play button while the playlist is empty and the skip buttons while it  *)
(* has fewer than two tracks; a disabled control delivers no mouse event. *)
(***************************************************************************)
(* click on a rendered playlist row *)
RowClick(failSteps) ==
  \E index \in 0..(uiTracks - 1), allowed \in BOOLEAN,
     failAt \in (IF variant = "bars" THEN Failures(failSteps) ELSE {0}) :
    Commit(loadTrackOf(Cur, index, failAt, allowed))

(* seekBar.onmousedown, touchstart *)
SeekDown ==
  /\ uiTracks > 0
  /\ ~isSeeking
  /\ Commit([Cur EXCEPT !.isSeeking = TRUE])

(* the user drags the thumb; seekBar.oninput only restyles the bar        *)
SeekInput ==
  /\ uiTracks > 0
  /\ isSeeking
  /\ \E value \in SeekInputs : Commit([Cur EXCEPT !.seekBarValue = value])

(* seekBar.onmouseup, touchend *)
SeekUp ==
  /\ uiTracks > 0
  /\ isSeeking
  /\ Commit(seekToPosition([Cur EXCEPT !.isSeeking = FALSE]))

(***************************************************************************)
(* Handlers of the sphere variant (part_002), of the classic variant      *)
(* (script.js:1-356), which has the same, and of the bars variant         *)
(* (script.js:358-617); all have buttons only.                             *)
(***************************************************************************)
(* fileInput.onchange *)
FileInputChange(batches, failSteps) ==
  /\ variant \in {"sphere", "classic"}
  /\ \E files \in batches, failAt \in Failures(failSteps), allowed \in BOOLEAN :
       Commit(addFilesToPlaylist(Cur, files, failAt, allowed))

FileInputChangeBars(batches) ==
  /\ variant = "bars"
  /\ \E files \in batches : Commit(addFilesToPlaylistBars(Cur, files))

(* playPauseButton.onclick *)
PlayPauseClick(failSteps) ==
  /\ variant \in {"sphere", "classic"}
  /\ uiTracks > 0
  /\ \E failAt \in Failures(failSteps), allowed \in BOOLEAN :
       Commit(togglePlayPause(Cur, failAt, allowed))

PlayPauseClickBars(failSteps) ==
  /\ variant = "bars"
  /\ uiTracks > 0
  /\ \E failAt \in Failures(failSteps), allowed \in BOOLEAN :
       Commit(togglePlayPauseBars(Cur, failAt, allowed))

(* skipBackButton.onclick, skipForwardButton.onclick *)
SkipClick(failSteps) ==
  /\ variant # "web"
  /\ uiTracks >= 2
  /\ \E delta \in {-1, 1}, allowed \in BOOLEAN,
        failAt \in (IF variant = "bars" THEN Failures(failSteps) ELSE {0}) :
       Commit(loadTrackOf(Cur, currentTrackIndex + delta, failAt, allowed))

(* clearPlaylistButton.onclick *)
ClearClickBars ==
  /\ variant = "bars"
  /\ uiTracks > 0
  /\ Commit(clearPlaylist(Cur))

(***************************************************************************)
(* window 'resize'.  The container has taken a new size when the handler  *)
(* runs; a hidden container measures 0 x 0.                               *)
(***************************************************************************)
Sizes == {InitialSize, <<400, 400>>, <<0, 0>>}

(* onWindowResize as it would be without the test of a zero width or     *)
(* height: what C27 excludes.                                              *)
onWindowResizeUnguarded(s) ==
  [SizedViewport(s) EXCEPT !.resolution = IF s.web THEN s.container ELSE @]

onWindowResize(s) ==
  IF s.container[1] = 0 \/ s.container[2] = 0
    THEN s
    ELSE [SizedViewport(s) EXCEPT !.resolution = IF s.web THEN s.container ELSE @]

(* part_002: there is no line material *)
onWindowResizeSphere(s) ==
  IF s.container[1] = 0 \/ s.container[2] = 0 THEN s ELSE SizedViewport(s)

(* script.js: no guard *)
onWindowResizeBars(s) == SizedViewport(s)

onWindowResizeOf(s) ==
  CASE s.variant \in {"web", "classic"} -> onWindowResize(s)
    [] s.variant = "sphere" -> onWindowResizeSphere(s)
    [] OTHER -> onWindowResizeBars(s)

Resize ==
  \E size \in Sizes : Commit(onWindowResizeOf([Cur EXCEPT !.container = size]))

(* the sizes of the viewport view: a zero width and a zero height alone   *)
(* besides the sizes above                                                 *)
ResizeSizes == Sizes \cup {<<0, 600>>, <<800, 0>>}

WindowResize ==
  \E size \in ResizeSizes : Commit(onWindowResizeOf([Cur EXCEPT !.container = size]))

(***************************************************************************)
(* Specifications.  Spec is the transport view of the four variants:      *)
(* playlist, audio graph, media element, seek bar, and the frames that    *)
(* interleave with them.                                                   *)
(***************************************************************************)
TransportFrames == MaxFrames - 1

Next ==
  \/ Animate({BassFrame}, TransportFrames)
  \/ OnPlay
  \/ OnPause
  \/ OnTimeUpdate
  \/ OnLoadedMetadata
  \/ LoadError
  \/ PlaybackTick
  \/ FilesAdded(Batches, FailSteps)
  \/ PlayPause(FailSteps)
  \/ Skip
  \/ RemoveClick
  \/ PlaylistClear
  \/ SeekKey
  \/ RowClick(FailSteps)
  \/ SeekDown
  \/ SeekInput
  \/ SeekUp
  \/ FileInputChange(Batches, FailSteps)
  \/ FileInputChangeBars(Batches)
  \/ PlayPauseClick(FailSteps)
  \/ PlayPauseClickBars(FailSteps)
  \/ SkipClick(FailSteps)
  \/ ClearClickBars

Spec == Init /\ [][Next]_vars

(***************************************************************************)
(* SpecScene is the scene view: frames under every spectrum of the model, *)
(* the configuration events, and as much of the transport as starts and   *)
(* stops playback.  Construction of the audio graph succeeds or stops     *)
(* before the listeners are wired.                                         *)
(***************************************************************************)
SceneBatches == {<<FileA>>}

SceneFailSteps == {0, 5}

NextScene ==
  \/ Animate(Spectra, MaxFrames)
  \/ SensitivityEvent
  \/ ParticlesEvent
  \/ PresetEvent
  \/ OnPlay
  \/ OnPause
  \/ FilesAdded(SceneBatches, SceneFailSteps)
  \/ PlayPause(SceneFailSteps)
  \/ FileInputChange(SceneBatches, SceneFailSteps)
  \/ PlayPauseClick(SceneFailSteps)
  \/ FileInputChangeBars(SceneBatches)
  \/ PlayPauseClickBars(SceneFailSteps)

SpecScene == Init /\ [][NextScene]_vars

(***************************************************************************)
(* SpecLoop is the view of the render loop: frames interleaved with the   *)
(* events that might disturb them, which are failed constructions of the  *)
(* audio graph, refused and failed playback, configuration events and     *)
(* resizes.  The browser runs a requested animation-frame callback when   *)
(* the next frame is due, whatever else is queued: the frame is weakly    *)
(* fair.                                                                   *)
(***************************************************************************)
LoopFailSteps == {0, 1, 3}

NextLoop ==
  \/ Animate({BassFrame}, MaxFrames)
  \/ Resize
  \/ SensitivityEvent
  \/ PresetEvent
  \/ OnPlay
  \/ OnPause
  \/ LoadError
  \/ FilesAdded(SceneBatches, LoopFailSteps)
  \/ PlayPause(LoopFailSteps)
  \/ FileInputChange(SceneBatches, LoopFailSteps)
  \/ PlayPauseClick(LoopFailSteps)
  \/ FileInputChangeBars(SceneBatches)
  \/ PlayPauseClickBars(LoopFailSteps)

(* the steps of NextLoop that run a frame, by what they do to the state   *)
FrameStep == rafPending > 0 /\ frames < MaxFrames /\ frames' = frames + 1

SpecLoop == Init /\ [][NextLoop]_vars /\ WF_frames(FrameStep)

(***************************************************************************)
(* C5.  The render loop keeps running: in every reachable state exactly   *)
(* one animate callback is requested, whatever transport events,          *)
(* configuration events, resizes, failed constructions and refused plays  *)
(* came before, and the requested frame is eventually executed.           *)
(***************************************************************************)
C5_LoopKeepsRunning ==
  /\ [](rafPending = 1)
  /\ \A n \in 1..(MaxFrames - 1) : (frames = n) ~> (frames = n + 1)

(* a second frame ran after a failed construction of the audio graph, a   *)
(* failed load and a resize of the container                              *)
C5_Witness ==
  /\ frames = MaxFrames
  /\ rafPending = 1
  /\ initResult = "failed"
  /\ container # InitialSize

(***************************************************************************)
(* Frames are recognised by what they do: they alone advance `frames`.    *)
(* A frame is reactive if it read the analyser, which advances `polls`.   *)
(***************************************************************************)
IsFrame == frames' = frames + 1

IsReactiveFrame == IsFrame /\ polls' = polls + 1

(***************************************************************************)
(* C1.  A frame that finds isPlaying false or no analyser is idle: it     *)
(* does not read the analyser and leaves vertex positions, colour, bars,  *)
(* particle scale and opacity and the spectrum buffer as they are.        *)
(***************************************************************************)
C1_IdleFrameKeepsShape ==
  [][(IsFrame /\ ~(isPlaying /\ analyser))
       => /\ polls' = polls
          /\ ~polled'
          /\ dataArray' = dataArray
          /\ positions' = positions
          /\ color' = color
          /\ bars' = bars
          /\ partScale' = partScale
          /\ partOpacity' = partOpacity]_vars

(* an idle frame ran after a reactive one and kept the displaced mesh     *)
C1_Witness ==
  /\ variant = "web"
  /\ frames = 3 /\ polls = 1 /\ ~polled /\ ~isPlaying
  /\ positions # originalPositions
  /\ color # Hex(LineColor(preset))

(***************************************************************************)
(* C3.  No drift: after every reactive frame the vertex positions are the *)
(* base positions displaced by the features of that frame's spectrum      *)
(* alone, whatever the positions were before.                             *)
(***************************************************************************)
C3_NoDrift ==
  [][IsReactiveFrame
       => positions' =
            CASE variant = "web" ->
                   Displaced(originalPositions, baseDispOf(dataArray', sensitivity))
              [] variant = "sphere" ->
                   DisplacedByBins(originalPositions, originalPositions, dataArray')
              [] variant = "classic" ->
                   Displaced(originalPositions, displacementOf(dataArray'))
              [] OTHER -> positions]_vars

(* two reactive frames in a row with the same non-zero spectrum           *)
C3_Witness ==
  /\ variant = "web"
  /\ frames = 3 /\ polls = 2
  /\ dataArray = BassFrame
  /\ positions # originalPositions
  /\ positions = Displaced(originalPositions, baseDispOf(BassFrame, sensitivity))

(***************************************************************************)
(* C4.  No frame writes the base positions: a frame, idle or reactive,    *)
(* leaves originalPositions unchanged, and a step that changes them is a  *)
(* preset switch that installs the base geometry of the new preset.       *)
(***************************************************************************)
C4_BaseOnlyFromCreate ==
  [][/\ IsFrame => originalPositions' = originalPositions
     /\ originalPositions' # originalPositions
          => /\ preset' # preset
             /\ originalPositions' = BaseGeometry(preset')
             /\ positions' = originalPositions']_vars

(* a reactive frame ran on a switched preset and the base is intact       *)
C4_Witness ==
  /\ preset = "wave-tunnel"
  /\ polls > 0 /\ polled
  /\ positions # originalPositions
  /\ originalPositions = BaseGeometry("wave-tunnel")

(***************************************************************************)
(* SpecGraph is the view of the audio graph: every handler that reaches   *)
(* unlockAndInitAudio, with every construction step that can throw, and   *)
(* the playlist operations that decide whether the handlers get there.    *)
(***************************************************************************)
NextGraph ==
  \/ FilesAdded(Batches, FailSteps)
  \/ PlayPause(FailSteps)
  \/ Skip
  \/ RemoveClick
  \/ PlaylistClear
  \/ RowClick(FailSteps)
  \/ FileInputChange(Batches, FailSteps)
  \/ FileInputChangeBars(Batches)
  \/ PlayPauseClick(FailSteps)
  \/ PlayPauseClickBars(FailSteps)
  \/ SkipClick(FailSteps)
  \/ ClearClickBars
  \/ OnPlay
  \/ OnPause

SpecGraph == Init /\ [][NextGraph]_vars

(***************************************************************************)
(* SpecSeek is the view of the seek bar: drags interleaved with playback, *)
(* with the media events that call updateSeekBar, and with the handlers   *)
(* that start, stop and clear playback.  The audio graph is built without *)
(* failure.                                                                *)
(***************************************************************************)
NoFailure == {0}

NextSeek ==
  \/ SeekDown
  \/ SeekInput
  \/ SeekUp
  \/ SeekKey
  \/ OnPlay
  \/ OnPause
  \/ OnTimeUpdate
  \/ OnLoadedMetadata
  \/ PlaybackTick
  \/ FilesAdded(SceneBatches, NoFailure)
  \/ PlayPause(NoFailure)
  \/ PlaylistClear
  \/ FileInputChange(SceneBatches, NoFailure)
  \/ PlayPauseClick(NoFailure)
  \/ FileInputChangeBars(SceneBatches)
  \/ PlayPauseClickBars(NoFailure)

SpecSeek == Init /\ [][NextSeek]_vars

(***************************************************************************)
(* C2.  As claimed: a frame that finds the playlist empty does not read   *)
(* the analyser, under every interleaving of frames, media events and     *)
(* playlist operations.  The code tests isPlaying and analyser only.      *)
(***************************************************************************)
C2_NoTrackNoPoll ==
  [][(IsFrame /\ Len(playlist) = 0) => polls' = polls]_vars

(* the page is in playing state with no track left                        *)
C2_PlayingWithoutTrack ==
  /\ Len(playlist) = 0 /\ currentTrackIndex = -1
  /\ isPlaying /\ analyser
  /\ rafPending > 0

(***************************************************************************)
(* C6.  As claimed: after a construction that threw, the audio system is  *)
(* still uninitialised for loadTrack and togglePlayPause, which test      *)
(* audioContext, so that the next activation constructs the graph again.  *)
(***************************************************************************)
C6_FailureLeavesUninitialised ==
  initResult = "failed" => ~audioContext

(* loadTrack went past its guard with only the context built              *)
C6_HalfBuiltGraphUsed ==
  /\ initResult = "failed"
  /\ audioContext /\ ~audioElement
  /\ currentTrackIndex = 0

(***************************************************************************)
(* C7.  The audio graph is built at most once and the listeners are added *)
(* at most once; once audioContext is set, no handler changes any part of *)
(* the graph or the listener set.                                          *)
(***************************************************************************)
C7_GraphBuiltOnce ==
  /\ [](graphBuilds <= 1 /\ listeners <= 1)
  /\ [][audioContext
          => UNCHANGED <<audioContext, audioElement, analyser, source, listeners,
                         graphBuilds, initResult>>]_vars

(* unlockAndInitAudio was called again after it had succeeded: each       *)
(* 'files:added' calls it and adds one track                              *)
C7_Witness ==
  /\ variant = "web"
  /\ initResult = "ready" /\ graphBuilds = 1 /\ listeners = 1
  /\ Len(playlist) = 2

(***************************************************************************)
(* C8.  As claimed: when a pending play() is rejected because the source  *)
(* cannot be decoded, the transport is left paused, isPlaying false.      *)
(***************************************************************************)
C8_RejectedPlayLeavesPaused ==
  [][(LoadError /\ playPromises > 0) => ~isPlaying']_vars

(* the source failed, nothing is queued, and the page shows playing       *)
C8_PlayingAfterFailure ==
  /\ readyState = "failed" /\ playPromises = 0
  /\ mediaEvents = <<>>
  /\ isPlaying

(***************************************************************************)
(* C9.  Seek guard: while isSeeking holds, no 'timeupdate' and no         *)
(* 'loadedmetadata' callback changes seekBar.value.                       *)
(***************************************************************************)
C9_SeekGuard ==
  [][(isSeeking /\ (OnTimeUpdate \/ OnLoadedMetadata \/ OnPause \/ PlaybackTick))
       => seekBarValue' = seekBarValue]_vars

(* playback moved on during a drag and the bar did not follow             *)
C9_Witness ==
  /\ isSeeking /\ listeners = 1
  /\ readyState = "ready" /\ ~paused /\ mediaEvents = <<>>
  /\ currentTime = TimeStep
  /\ seekBarValue = 0

(***************************************************************************)
(* SpecDrag is SpecSeek with a user who lets go: a drag in progress ends  *)
(* as soon as the bar can receive the pointer-up, which it can while it   *)
(* is enabled.                                                             *)
(***************************************************************************)
DragEnds == uiTracks > 0 /\ isSeeking /\ isSeeking' = FALSE

SpecDrag == SpecSeek /\ WF_isSeeking(DragEnds)

(***************************************************************************)
(* C10.  As claimed: the drag end releases the guard and sets the         *)
(* playback position to the position the bar shows, and every drag that   *)
(* starts is eventually released.                                          *)
(***************************************************************************)
C10_DragEndSetsPosition ==
  [][SeekUp => ~isSeeking' /\ currentTime' = (seekBarValue * Duration) \div 100]_vars

C10_EveryDragReleases == isSeeking ~> ~isSeeking

C10_DragEndHandsBack == C10_DragEndSetsPosition /\ C10_EveryDragReleases

(* What the handlers do guarantee: the drag end releases the guard, sets  *)
(* the position when the element exists and its duration is known, and    *)
(* the next time update of a track with known duration writes the live    *)
(* position to the bar.                                                    *)
C10_ReleaseAndResync ==
  [][/\ SeekUp => /\ ~isSeeking'
                  /\ (audioElement /\ readyState = "ready")
                       => currentTime' = (seekBarValue * Duration) \div 100
                  /\ ~(audioElement /\ readyState = "ready") => currentTime' = currentTime
     /\ ((OnTimeUpdate \/ OnPause \/ PlaybackTick) /\ ~isSeeking /\ listeners > 0 /\ readyState' = "ready")
          => seekBarValue' = RangeValue(Rat(currentTime' * 100, Duration))]_vars

(* the guard is held and the disabled bar cannot receive the pointer-up   *)
C10_GuardStuck ==
  /\ isSeeking
  /\ uiTracks = 0 /\ Len(playlist) = 0

(***************************************************************************)
(* Presets and the mesh.                                                   *)
(***************************************************************************)
(* x is a sensitivity setting, a number within 0..100                     *)
IsSetting(x) == RLeq(RInt(0), x) /\ RLeq(x, RInt(100))

(* the sensitivity values the events of the model can set                 *)
SensitivitySettings ==
  {RInt(60)} \cup {clamp(d[2], RInt(0), RInt(100)) :
                      d \in {x \in SensitivityDetails : IsNumber(x)}}

(* buf is a shape of preset p: its base, or its base displaced by the     *)
(* features of the spectrum frame data at one of the sensitivity settings *)
IsShapeOf(buf, p, data) ==
  \/ buf = BaseGeometry(p)
  \/ \E sv \in SensitivitySettings :
       buf = Displaced(BaseGeometry(p), baseDispOf(data, sv))

(***************************************************************************)
(* C11.  A preset switch disposes the old mesh before it installs the new *)
(* one: after the disposal nothing of the line mesh is left in the scene, *)
(* after the handler exactly one mesh and one geometry/material pair      *)
(* exist, and the positions are the new base.  In every state the         *)
(* positions shown are a shape of the active preset (its base, or its     *)
(* base displaced by the last spectrum read), and every frame leaves them *)
(* alone or computes them from the base of the active preset.             *)
(***************************************************************************)
C11_SwitchDisposesAndResets ==
  /\ [](variant = "web"
         => /\ web /\ sceneWebs = 1 /\ undisposed = 1
            /\ disposeWeb(Cur).sceneWebs = 0 /\ disposeWeb(Cur).undisposed = 0
            /\ originalPositions = BaseGeometry(preset)
            /\ IsShapeOf(positions, preset, dataArray))
  /\ [][variant = "web"
          => /\ preset' # preset
                  => /\ positions' = BaseGeometry(preset')
                     /\ originalPositions' = BaseGeometry(preset')
             /\ IsFrame
                  => \/ positions' = positions
                     \/ positions' = Displaced(BaseGeometry(preset'),
                                                baseDispOf(dataArray', sensitivity'))]_vars

(* the preset was switched in the middle of playback, after a reactive    *)
(* frame had displaced the old mesh; the new mesh shows its base          *)
C11_Witness ==
  /\ variant = "web" /\ preset = "particle-burst"
  /\ isPlaying /\ polls = 1 /\ frames = 2
  /\ dataArray = BassFrame
  /\ positions = BaseGeometry("particle-burst")
  /\ sceneWebs = 1 /\ undisposed = 1

(***************************************************************************)
(* C12.  As claimed: a 'visualizer:preset' event that leaves the active   *)
(* preset as it is leaves the scene as it is: positions, base positions,  *)
(* colour and rotation of the mesh.  The listener calls                    *)
(* createVisualizerWeb without comparing with the active preset.          *)
(***************************************************************************)
C12_ActivePresetIsNoOp ==
  [][(PresetEvent /\ preset' = preset)
       => UNCHANGED <<positions, originalPositions, color, webRotX, webRotY>>]_vars

(* frames turned and displaced the first mesh, the active preset was      *)
(* selected again, and the mesh is back at rotation 0 on its base         *)
C12_RebuiltOnReselect ==
  /\ variant = "web" /\ preset = "cosmic-grid"
  /\ frames = MaxFrames /\ polls > 0
  /\ webRotX = 0 /\ webRotY = 0
  /\ positions = originalPositions
  /\ color = Hex(LineColor("cosmic-grid"))

(***************************************************************************)
(* C13.  Preset selection is idempotent on the preset state: from every   *)
(* reachable state and for every event detail, handling the event twice   *)
(* in a row leaves preset, base positions, positions, colour and rotation *)
(* as handling it once does.                                               *)
(***************************************************************************)
PresetState(s) ==
  <<s.preset, s.originalPositions, s.positions, s.color, s.webRotX, s.webRotY>>

C13_SelectTwiceIsSelectOnce ==
  variant = "web"
    => \A detail \in PresetDetails :
         PresetState(onPreset(onPreset(Cur, detail), detail))
           = PresetState(onPreset(Cur, detail))

(* a turned and displaced mesh of one preset, where selecting another     *)
(* preset changes every part of the preset state                          *)
C13_Witness ==
  /\ variant = "web" /\ preset = "wave-tunnel"
  /\ webRotY = 2 * 20 /\ webRotX = 2 * 5
  /\ polled /\ positions # originalPositions
  /\ color # Hex(LineColor(preset))

(***************************************************************************)
(* C14.  Every frame turns the mesh by a positive amount, idle or         *)
(* reactive: in the web variant by 0.0005 about x and by 0.001 about y,   *)
(* 0.002 for the wave-tunnel preset; in the sphere variant by 0.0005      *)
(* about y when idle and by 0.001 when reactive; in the classic variant by *)
(* 0.0005 about x and by 0.001 about y.                                    *)
(***************************************************************************)
C14_EveryFrameTurns ==
  [][IsFrame
       => CASE variant = "web" ->
                 /\ webRotX' = webRotX + 5
                 /\ webRotY' = webRotY + (IF preset = "wave-tunnel" THEN 20 ELSE 10)
                 /\ webRotY' > webRotY
            [] variant = "sphere" ->
                 /\ webRotY' = webRotY + (IF isPlaying /\ analyser THEN 10 ELSE 5)
                 /\ webRotY' > webRotY
            [] variant = "classic" ->
                 /\ webRotX' = webRotX + 5
                 /\ webRotY' = webRotY + 10
            [] OTHER -> TRUE]_vars

(* an idle and a reactive frame of the sphere: 0.0005 + 0.001              *)
C14_Witness ==
  /\ variant = "sphere"
  /\ frames = 2 /\ polls = 1
  /\ webRotY = 5 + 10

(***************************************************************************)
(* C15.  As claimed: the rotation of the displayed mesh about each axis   *)
(* never decreases, over frames, transport events and preset selections.  *)
(* createVisualizerWeb replaces the mesh by a new one at rotation 0.      *)
(***************************************************************************)
C15_RotationNeverDecreases ==
  [][webRotX' >= webRotX /\ webRotY' >= webRotY]_vars

(* frames ran and the mesh shown is at rotation 0 again                   *)
C15_RotationReset ==
  /\ variant = "web" /\ preset = "wave-tunnel"
  /\ frames > 0
  /\ webRotX = 0 /\ webRotY = 0

(***************************************************************************)
(* C16.  The position buffer of the mesh has the length of the base       *)
(* position buffer, which is that of the active preset's base geometry,   *)
(* in every state.                                                         *)
(***************************************************************************)
C16_BuffersSameLength ==
  /\ Len(positions) = Len(originalPositions)
  /\ variant = "web" => Len(originalPositions) = Len(BaseGeometry(preset))

(* reactive frames ran on meshes of different vertex counts               *)
C16_Witness ==
  /\ variant = "web" /\ preset = "wave-tunnel"
  /\ Len(BaseGeometry("wave-tunnel")) # Len(BaseGeometry("cosmic-grid"))
  /\ frames = 3 /\ polls = 2
  /\ Len(positions) = Len(BaseGeometry("wave-tunnel"))
  /\ positions # originalPositions

(***************************************************************************)
(* C17.  As claimed, sensitivity is clamped, not rejected: from every     *)
(* reachable state an event with a number below 0 sets sensitivity to 0,  *)
(* one above 100 sets it to 100, one within the range sets it to that     *)
(* number, and an event whose detail is not a number changes nothing.     *)
(* Only this event changes sensitivity, which is within 0..100 in every   *)
(* state.  The detail NaN is a number that is neither below, above nor    *)
(* within the range: the listener stores it.                               *)
(***************************************************************************)
C17_SensitivityClamped ==
  /\ [](/\ IsSetting(sensitivity)
        /\ variant = "web"
             => \A detail \in SensitivityDetails :
                  LET after == onSensitivity(Cur, detail)
                  IN /\ (IsNumber(detail) /\ RLess(detail[2], RInt(0)))
                          => after.sensitivity = RInt(0)
                     /\ (IsNumber(detail) /\ RLess(RInt(100), detail[2]))
                          => after.sensitivity = RInt(100)
                     /\ (IsNumber(detail) /\ IsSetting(detail[2]))
                          => after.sensitivity = detail[2]
                     /\ IsNumber(detail)
                          => after = [Cur EXCEPT !.sensitivity = after.sensitivity]
                     /\ ~IsNumber(detail) => after = Cur)
  /\ [][sensitivity' # sensitivity => SensitivityEvent]_vars

(* an event with detail NaN was accepted: sensitivity is NaN, outside     *)
(* 0..100, and the reactive frame that used it moved every vertex to NaN  *)
C17_SensitivityIsNaN ==
  /\ variant = "web"
  /\ sensitivity = NaN
  /\ ~IsSetting(sensitivity)
  /\ polled /\ dataArray = BassFrame
  /\ positions = [k \in 1..Len(originalPositions) |-> NaN]

(***************************************************************************)
(* C18.  A preset event is accepted for the three preset ids only,        *)
(* whatever the case of its letters: from every reachable state an        *)
(* accepted detail makes its id the active preset, every other detail     *)
(* changes nothing, and the active preset is one of the three ids in      *)
(* every state.                                                            *)
(***************************************************************************)
AcceptedDetails ==
  { <<<<"w", "a", "v", "e", "-", "t", "u", "n", "n", "e", "l">>, "wave-tunnel">>,
    <<<<"P", "a", "r", "t", "i", "c", "l", "e", "-", "B", "u", "r", "s", "t">>,
      "particle-burst">>,
    <<<<"C", "O", "S", "M", "I", "C", "-", "G", "R", "I", "D">>, "cosmic-grid">> }

C18_OnlyEnumeratedPresets ==
  variant = "web"
    => /\ preset \in Presets
       /\ \A accepted \in AcceptedDetails :
            /\ accepted[1] \in PresetDetails
            /\ onPreset(Cur, accepted[1]).preset = accepted[2]
       /\ \A detail \in PresetDetails \ {accepted[1] : accepted \in AcceptedDetails} :
            onPreset(Cur, detail) = Cur

(* 'Particle-Burst' was accepted as particle-burst before any frame but  *)
(* the one init ran                                                        *)
C18_Witness ==
  /\ variant = "web"
  /\ preset = "particle-burst"
  /\ frames = 1
  /\ originalPositions = BaseGeometry("particle-burst")
  /\ color = Hex(LineColor("particle-burst"))

(***************************************************************************)
(* SpecFeatures is the view of the feature extractor: the page plays and  *)
(* the analyser delivers frames that differ in their first 32 bins and,   *)
(* independently, in the bins above, at every sensitivity setting of the  *)
(* web page.                                                               *)
(***************************************************************************)
BassPatterns == {"silent", "half", "full", "ramp"}

(* the byte in bin i (JavaScript index) of a bass pattern                 *)
BassSample(pattern, i) ==
  CASE pattern = "silent" -> 0
    [] pattern = "half" -> 128
    [] pattern = "full" -> 255
    [] OTHER -> 8 * i

FeatureFrame(pattern, fill) ==
  [k \in 1..BinCount |-> IF k <= 32 THEN BassSample(pattern, k - 1) ELSE fill]

FeatureFrames == {FeatureFrame(pattern, fill) : pattern \in BassPatterns, fill \in {0, 255}}

NextFeatures ==
  \/ Animate(FeatureFrames, MaxFrames)
  \/ SensitivityEvent
  \/ FilesAdded(SceneBatches, NoFailure)
  \/ FileInputChange(SceneBatches, NoFailure)
  \/ OnPlay

SpecFeatures == Init /\ [][NextFeatures]_vars

(***************************************************************************)
(* C19.  The bass energy of the spectrum frame the page holds is within   *)
(* [0, 1] and is the sum of the first 32 samples over 32 * 255: every     *)
(* frame with the same first 32 samples has the same bass energy,         *)
(* whatever its other samples are; the mean of the classic page, the sum  *)
(* of slice(0, 32) over 32, is the same number.  After a reactive frame   *)
(* of the web page or of the classic page the hue of the mesh is the one  *)
(* this bass energy gives.                                                 *)
(***************************************************************************)
C19_BassEnergyOfFirst32 ==
  analyser
    => LET bass == bassIntensityOf(dataArray)
       IN /\ \A k \in 1..Len(dataArray) : dataArray[k] \in 0..255
          /\ RLeq(RInt(0), bass) /\ RLeq(bass, RInt(1))
          /\ bass = Rat(SumRange(dataArray, 0, 32), 32 * 255)
          /\ \A other \in FeatureFrames :
               (\A k \in 1..32 : other[k] = dataArray[k])
                 => bassIntensityOf(other) = bass
          /\ RDivInt(sliceAvg(dataArray, 0, 32, 32), 255) = bass
          /\ (variant = "web" /\ polled)
               => color = HSL(PresetHue(preset, bass), <<4, 5>>, <<1, 2>>)
          /\ (variant = "classic" /\ polled)
               => color = HSL(RSub(<<3, 5>>, RMul(bass, <<3, 5>>)), <<4, 5>>, <<1, 2>>)

(* a reactive frame read a spectrum with a rising bass and loud bins      *)
(* above: bass energy 124/255                                              *)
C19_Witness ==
  /\ variant = "web" /\ polled
  /\ dataArray = FeatureFrame("ramp", 255)
  /\ bassIntensityOf(dataArray) = <<124, 255>>
  /\ bassIntensityOf(FeatureFrame("ramp", 0)) = <<124, 255>>

(***************************************************************************)
(* C20.  As claimed: sensitivityFactor is 0.25 at 0 and 2 at 100 and is   *)
(* strictly increasing over the whole numbers 0..100; at the sensitivity  *)
(* of every reachable state it is within [0.25, 2].  The sensitivity can  *)
(* be NaN (C17), and then the factor is NaN.                               *)
(***************************************************************************)
C20_SensitivityFactorRange ==
  /\ sensitivityFactor(RInt(0)) = <<1, 4>>
  /\ sensitivityFactor(RInt(100)) = RInt(2)
  /\ \A a \in 0..99 : RLess(sensitivityFactor(RInt(a)), sensitivityFactor(RInt(a + 1)))
  /\ RLeq(<<1, 4>>, sensitivityFactor(sensitivity))
  /\ RLeq(sensitivityFactor(sensitivity), RInt(2))

(* full bass read at sensitivity NaN: the factor is NaN, neither at least *)
(* 0.25 nor at most 2, and so is the displacement 20 * factor             *)
C20_FactorIsNaN ==
  /\ variant = "web" /\ polled
  /\ dataArray = FeatureFrame("full", 0)
  /\ sensitivityFactor(sensitivity) = NaN
  /\ ~RLeq(<<1, 4>>, sensitivityFactor(sensitivity))
  /\ ~RLeq(sensitivityFactor(sensitivity), RInt(2))
  /\ baseDispOf(dataArray, sensitivity) = NaN
  /\ positions # originalPositions

(***************************************************************************)
(* C21.  The displacement is (bassEnergy * 20 + midEnergy * 10) *         *)
(* sensitivityFactor for every frame and every sensitivity: written out,  *)
(* (60 * S1 + 10 * S2) / (96 * 255 * 400) * (100 + 7 * sensitivity) with  *)
(* S1 the sum of bins [0, 32) and S2 the sum of bins [32, 128).  A frame  *)
(* whose bins [0, 32) are 255 and whose other bins are 0 has bass energy  *)
(* 1 and, at sensitivity 100, displacement 40.  Every reactive frame of   *)
(* the web page displaces the base positions by this amount.              *)
(***************************************************************************)
C21_DisplacementFormula ==
  /\ [](/\ bassIntensityOf(FeatureFrame("full", 0)) = RInt(1)
        /\ baseDispOf(FeatureFrame("full", 0), RInt(100)) = RInt(40)
        /\ \A f \in FeatureFrames \cup {dataArray} :
             \A sv \in SensitivitySettings \cup {sensitivity} :
               baseDispOf(f, sv) =
                 RMul(Rat(60 * SumRange(f, 0, 32) + 10 * SumRange(f, 32, 128),
                          96 * 255 * 400),
                      RAdd(RInt(100), RMul(RInt(7), sv))))
  /\ [][(IsReactiveFrame /\ variant = "web")
          => positions' =
               Displaced(originalPositions,
                         RMul(Rat(60 * SumRange(dataArray', 0, 32)
                                    + 10 * SumRange(dataArray', 32, 128),
                                  96 * 255 * 400),
                              RAdd(RInt(100), RMul(RInt(7), sensitivity))))]_vars

(* a rising bass under loud mids at sensitivity 35:                       *)
(* (124/255 * 20 + 10) * 0.8625 = 11569/680                               *)
C21_Witness ==
  /\ variant = "web" /\ polled
  /\ sensitivity = RInt(35)
  /\ dataArray = FeatureFrame("ramp", 255)
  /\ midIntensityOf(dataArray) = RInt(1)
  /\ positions = Displaced(originalPositions, <<11569, 680>>)

FrameLengths == {0, 16, 40, 128, BinCount}

ShortFrame(length, fill) == [k \in 1..length |-> fill]

MalformedFrames == {ShortFrame(length, fill) : length \in FrameLengths, fill \in {0, 255}}

(* the ranges avgRange is asked for: the two of updateVisualizer, and      *)
(* ranges that start at or beyond their end                                *)
Ranges == {<<0, 32>>, <<32, 128>>, <<5, 5>>, <<8, 3>>, <<300, 400>>}

NextShort ==
  \/ Animate(MalformedFrames, MaxFrames)
  \/ SensitivityEvent
  \/ FilesAdded(SceneBatches, NoFailure)
  \/ OnPlay

SpecShort == Init /\ [][NextShort]_vars

(***************************************************************************)
(* C23.  Range averaging over a zero-length range (the frame is empty,    *)
(* the range starts at or beyond the end of the frame, or it starts at or *)
(* beyond its own end) yields 0, and every result of avgRange is a number *)
(* (a quotient with a non-zero denominator).  A reactive frame that reads *)
(* an empty frame therefore has bass and mid energy 0 and, at a           *)
(* sensitivity setting, shows the base positions.                          *)
(***************************************************************************)
C23_EmptyRangeIsZero ==
  /\ [](\A f \in MalformedFrames \cup {dataArray} :
          \A r \in Ranges \cup {<<Len(f), Len(f) + 32>>} :
            LET energy == avgRange(f, r[1], r[2])
            IN /\ energy[2] > 0
               /\ (Len(f) = 0 \/ r[1] >= Len(f) \/ r[1] >= r[2]) => energy = RInt(0))
  /\ [][(IsReactiveFrame /\ variant = "web" /\ dataArray' = <<>>)
          => /\ bassIntensityOf(dataArray') = RInt(0)
             /\ midIntensityOf(dataArray') = RInt(0)
             /\ IsSetting(sensitivity) => positions' = originalPositions]_vars

(* a reactive frame read an empty frame                                    *)
C23_Witness ==
  /\ variant = "web" /\ polled
  /\ dataArray = <<>>
  /\ avgRange(dataArray, 0, 32) = RInt(0)
  /\ avgRange(dataArray, 32, 128) = RInt(0)
  /\ positions = originalPositions

(***************************************************************************)
(* C24.  A short spectrum frame (fewer than the 128 samples the bass and  *)
(* mid ranges need, down to none) counts as silence: a reactive frame     *)
(* that reads it has bass energy 0, mid energy 0 and displacement 0, and  *)
(* shows the base positions.                                               *)
(***************************************************************************)
C24_ShortFrameIsSilent ==
  [][(IsReactiveFrame /\ variant = "web" /\ Len(dataArray') < 128)
       => /\ bassIntensityOf(dataArray') = RInt(0)
          /\ midIntensityOf(dataArray') = RInt(0)
          /\ baseDispOf(dataArray', sensitivity) = RInt(0)
          /\ positions' = originalPositions]_vars

(* sixteen loud samples: the bass energy is their average, 1, and the     *)
(* mesh is displaced                                                       *)
C24_ShortFrameMoves ==
  /\ variant = "web" /\ polled
  /\ dataArray = ShortFrame(16, 255)
  /\ bassIntensityOf(dataArray) = RInt(1)
  /\ midIntensityOf(dataArray) = RInt(0)
  /\ positions = Displaced(originalPositions, RMul(RInt(20), sensitivityFactor(sensitivity)))
  /\ positions # originalPositions

(***************************************************************************)
(* SpecHue is the view of the colour mapping: the web page, the sphere    *)
(* page or the classic page plays, under every preset and sensitivity     *)
(* setting of the web page, and the analyser delivers the frames of       *)
(* SpecFeatures.                                                           *)
(***************************************************************************)
NextHue ==
  \/ Animate(FeatureFrames, MaxFrames)
  \/ SensitivityEvent
  \/ PresetEvent
  \/ FilesAdded(SceneBatches, NoFailure)
  \/ FileInputChange(SceneBatches, NoFailure)
  \/ OnPlay

SpecHue == Init /\ [][NextHue]_vars

(***************************************************************************)
(* C25.  The hue a reactive frame sets is a function of the bass energy   *)
(* alone, monotonic in one direction for a fixed preset, with saturation  *)
(* and lightness fixed: whatever frame the page had read in place of the  *)
(* last one, the colour would be the same if the bass energy is the same, *)
(* and the hues of frames with less bass lie all on one side.             *)
(***************************************************************************)
C25_HueOfBassAlone ==
  (polled /\ variant \in {"web", "sphere"} /\ color[1] = "hsl")
    => \E direction \in {1, -1} :
         \A f \in FeatureFrames :
           LET after == IF variant = "web" THEN updateVisualizer(Cur, f)
                        ELSE updateVisualizerWeb(Cur, f)
           IN /\ after.color[1] = "hsl"
              /\ after.color[3] = color[3] /\ after.color[4] = color[4]
              /\ bassIntensityOf(f) = bassIntensityOf(dataArray) => after.color = color
              /\ RLess(bassIntensityOf(f), bassIntensityOf(dataArray))
                   => IF direction = 1 THEN RLess(after.color[2], color[2])
                      ELSE RLess(color[2], after.color[2])

(* the sphere page read a frame without bass and with every bin above at  *)
(* 255: its hue is 0.55 + (224/256) * 0.1, while the frame without bass   *)
(* and with silence above gives 0.55                                       *)
C25_HueFollowsTreble ==
  /\ variant = "sphere" /\ polled
  /\ dataArray = FeatureFrame("silent", 255)
  /\ bassIntensityOf(dataArray) = RInt(0)
  /\ color = HSL(<<51, 80>>, RInt(1), <<1, 2>>)
  /\ updateVisualizerWeb(Cur, FeatureFrame("silent", 0)).color
       = HSL(<<11, 20>>, RInt(1), <<1, 2>>)

(* the web page alone maps the hue from the bass energy: C25 restricted   *)
(* to it holds                                                             *)
C25_WebHueOfBassAlone == (variant = "web") => C25_HueOfBassAlone

(***************************************************************************)
(* C26.  The ambient particle layer of the web page lives apart from the  *)
(* reactive path: in every state exactly one layer exists and its         *)
(* visibility equals particlesEnabled; no step, a preset switch included, *)
(* creates or removes a layer; and every frame turns the layer by -0.0004 *)
(* if it is enabled, playing or not, and leaves its rotation alone if it  *)
(* is disabled.  Nothing but a frame turns it.                            *)
(***************************************************************************)
C26_ParticleLayerLives ==
  /\ [](variant = "web"
          => /\ particles /\ particleLayers = 1
             /\ particlesVisible = particlesEnabled)
  /\ [][/\ particles' = particles /\ particleLayers' = particleLayers
        /\ (IsFrame /\ variant = "web")
             => partRotY' = IF particlesEnabled THEN partRotY - 4 ELSE partRotY
        /\ ~IsFrame => partRotY' = partRotY]_vars

(* two idle frames and a switch to the tunnel: the layer has turned twice *)
(* although nothing ever played                                            *)
C26_Witness ==
  /\ variant = "web" /\ preset = "wave-tunnel"
  /\ particles /\ particleLayers = 1
  /\ particlesEnabled /\ particlesVisible
  /\ frames = 2 /\ polls = 0 /\ ~isPlaying
  /\ partRotY = -8

(***************************************************************************)
(* SpecResize is the viewport view: the window is resized, to sizes with  *)
(* a zero width or height too, while the web page, the sphere page or the *)
(* classic page plays, frames run and presets and sensitivity change.     *)
(***************************************************************************)
NextResize ==
  \/ WindowResize
  \/ Animate({BassFrame}, MaxFrames)
  \/ SensitivityEvent
  \/ PresetEvent
  \/ FilesAdded(SceneBatches, NoFailure)
  \/ FileInputChange(SceneBatches, NoFailure)
  \/ OnPlay

SpecResize == Init /\ [][NextResize]_vars

(***************************************************************************)
(* C27.  A resize of the web, the classic or the sphere page changes      *)
(* nothing but                                                             *)
(* the camera aspect, the renderer size and the line-material resolution: *)
(* preset, base and current positions, rotation, colour, particle layer,  *)
(* sensitivity, spectrum buffer, frame counters, audio graph, playlist    *)
(* and transport stay as they are.  A resize to a zero width or height    *)
(* leaves those three unchanged as well; any other resize sets the aspect *)
(* to width / height and the renderer size (in the web page and the       *)
(* classic page also the resolution) to the new size.                      *)
(***************************************************************************)
C27_ResizeTouchesViewportOnly ==
  [][(container' # container /\ variant \in {"web", "sphere", "classic"})
       => /\ UNCHANGED <<variant, audioContext, audioElement, analyser, dataArray,
                         source, listeners, graphBuilds, initResult, playlist,
                         currentTrackIndex, isPlaying, isSeeking, nextUrl, liveUrls,
                         paused, src, readyState, currentTime, mediaEvents,
                         playPromises, seekBarValue, uiTracks, preset, sensitivity,
                         particlesEnabled, particlesVisible, originalPositions,
                         positions, color, webRotX, webRotY, partRotY, partScale,
                         partOpacity, bars, frames, rafPending, polled, polls, web,
                         sceneWebs, undisposed, particles, particleLayers>>
          /\ IF container'[1] = 0 \/ container'[2] = 0
               THEN UNCHANGED <<cameraAspect, rendererSize, resolution>>
               ELSE /\ cameraAspect' = Rat(container'[1], container'[2])
                    /\ rendererSize' = container'
                    /\ resolution' = IF variant \in {"web", "classic"}
                                        THEN container' ELSE resolution]_vars

(* the playing web page was resized to 400 x 400 and then to a zero       *)
(* width: the viewport is still the one of 400 x 400                      *)
C27_Witness ==
  /\ variant = "web" /\ isPlaying /\ polled
  /\ container = <<0, 600>>
  /\ cameraAspect = RInt(1)
  /\ rendererSize = <<400, 400>>
  /\ resolution = <<400, 400>>
  /\ positions # originalPositions

(***************************************************************************)
(* SpecWorker is the view of the transcription workers: messages arrive,  *)
(* model loads and transcriptions settle, in any order.                   *)
(***************************************************************************)
NextWorker ==
  \/ OnMessage
  \/ OnMessageSingleton
  \/ PipelineSettled
  \/ TranscriberSettled
  \/ ModelProgress
  \/ TranscribeProgress

SpecWorker == InitWorker /\ [][NextWorker]_vars

(***************************************************************************)
(* C28.  A worker loads a pipeline at most once per cache key: in every   *)
(* state pipeline() has been invoked at most once for every key of the    *)
(* cache and at most once for the singleton's instance.                   *)
(***************************************************************************)
C28_LoadedOncePerKey == \A k \in Keys : pipelineCalls[k] <= 1

(* two requests for the same key are both suspended at the load of their  *)
(* own pipeline                                                            *)
C28_LoadedTwice ==
  \E i, j \in 1..Len(requests) :
    /\ i < j
    /\ requests[i].key = requests[j].key
    /\ requests[i].pc = "loading" /\ requests[j].pc = "loading"
    /\ requests[i].pipeline # requests[j].pipeline
    /\ pipelineCalls[requests[i].key] = 2

(***************************************************************************)
(* SpecBackground is the view of the particle background: frames are      *)
(* drawn and the window is resized.                                        *)
(***************************************************************************)
NextBackground ==
  \/ Draw
  \/ WindowResized

SpecBackground == InitBackground /\ [][NextBackground]_vars

(***************************************************************************)
(* C29.  The connection cap: after every draw no particle counts more     *)
(* than CONFIG.maxConnectionsPerParticle connections.                      *)
(***************************************************************************)
C29_ConnectionCap ==
  \A i \in 1..Len(backgroundParticles) :
    backgroundParticles[i].connections <= maxConnectionsPerParticle

(* a draw has left a particle with more connections than the cap          *)
C29_CapExceeded ==
  /\ variant = "background" /\ draws > 0
  /\ \E i \in 1..Len(backgroundParticles) :
       backgroundParticles[i].connections > maxConnectionsPerParticle

(***************************************************************************)
(* SpecPlaylist is the playlist view of the web page: files are added in  *)
(* any order, tracks are skipped, removed, sorted and cleared, playback   *)
(* runs to the end of a track, and the construction of the audio graph    *)
(* may fail at any step.                                                   *)
(***************************************************************************)
PlaylistBatches ==
  {<<FileA>>, <<FileB>>, <<FileB, FileA>>, <<FileC>>, <<FileD, FileA>>, <<FileA, FileA>>}

NextPlaylist ==
  \/ FilesAdded(PlaylistBatches, FailSteps)
  \/ PlayPause(FailSteps)
  \/ Skip
  \/ RemoveClick
  \/ PlaylistSort
  \/ PlaylistClear
  \/ OnPlay
  \/ OnPause
  \/ OnLoadedMetadata
  \/ PlaybackTick

SpecPlaylist == Init /\ [][NextPlaylist]_vars

(***************************************************************************)
(* C30.  In every state currentTrackIndex is -1 or an index into the      *)
(* playlist, hence -1 whenever the playlist is empty; and loadTrack       *)
(* called with any index, in or out of range, ends in such a state.       *)
(***************************************************************************)
C30_IndexValid ==
  /\ currentTrackIndex = -1
       \/ (0 <= currentTrackIndex /\ currentTrackIndex < Len(playlist))
  /\ \A index \in -2..(Len(playlist) + 1) :
       LET loaded == loadTrack(Cur, index, TRUE)
       IN loaded.currentTrackIndex = -1
            \/ (0 <= loaded.currentTrackIndex
                  /\ loaded.currentTrackIndex < Len(loaded.playlist))

(* b was added and loaded first, a second; the sort has put a in front    *)
(* and the index has followed b to the second place                       *)
C30_Witness ==
  /\ variant = "web"
  /\ Len(playlist) = 2
  /\ playlist[1].url = 2 /\ playlist[2].url = 1
  /\ playlist[1].name[1] = "a" /\ playlist[2].name[1] = "b"
  /\ currentTrackIndex = 1
  /\ src = 1

(***************************************************************************)
(* SpecPlaying is the view of the playing flag: every handler that        *)
(* reaches unlockAndInitAudio, with every construction step that can      *)
(* throw, the media events that set and clear isPlaying, playback to the  *)
(* end of a track, clearing, and the frames that read the flag.           *)
(***************************************************************************)
NextPlaying ==
  \/ Animate({BassFrame}, MaxFrames)
  \/ OnPlay
  \/ OnPause
  \/ OnLoadedMetadata
  \/ PlaybackTick
  \/ FilesAdded(SceneBatches, FailSteps)
  \/ PlayPause(FailSteps)
  \/ PlaylistClear
  \/ FileInputChange(SceneBatches, FailSteps)
  \/ PlayPauseClick(FailSteps)
  \/ FileInputChangeBars(SceneBatches)
  \/ PlayPauseClickBars(FailSteps)
  \/ ClearClickBars

SpecPlaying == Init /\ [][NextPlaying]_vars

(***************************************************************************)
(* C31.  Whenever isPlaying is true the analyser and its data buffer      *)
(* exist; a frame that polls finds both; and isPlaying turns true only    *)
(* in the 'play' listener, which exists only once the analyser and the    *)
(* buffer were created.                                                    *)
(***************************************************************************)
C31_PlayingHasGraph ==
  /\ [](isPlaying => (analyser /\ dataArray # <<>>))
  /\ [][IsReactiveFrame => (analyser /\ dataArray # <<>>)]_vars
  /\ [][(~isPlaying /\ isPlaying') =>
          /\ listeners > 0 /\ analyser /\ dataArray # <<>>
          /\ mediaEvents # <<>> /\ Head(mediaEvents) = "play"
          /\ mediaEvents' = Tail(mediaEvents)]_vars

(* a frame polled the analyser while playing, on a page where an earlier  *)
(* state was reached through the play listener                            *)
C31_Witness ==
  /\ isPlaying /\ polled /\ polls > 0
  /\ analyser /\ Len(dataArray) = BinCount
  /\ initResult = "ready" /\ listeners = 1

(* what the media element is doing: a load or a play changes it           *)
Transport(s) ==
  <<s.src, s.paused, s.readyState, s.currentTime, s.mediaEvents, s.playPromises>>

(***************************************************************************)
(* C32.  removeTrack, applied in any reachable state with any index:      *)
(* an index out of range changes nothing; removing the only track clears  *)
(* the player; removing a track other than the current one leaves the     *)
(* same track object current, the index one lower if the removed track    *)
(* was before it, and leaves the media element alone; removing the        *)
(* current track makes current, and loads into the element, the track     *)
(* that took its position, or the first track if it was the last.         *)
(***************************************************************************)
C32_RemoveKeepsCurrent ==
  \A index \in -1..(Len(playlist) + 1), allowed \in BOOLEAN :
    LET r == removeTrack(Cur, index, allowed)
        n == Len(playlist)
    IN IF index < 0 \/ index >= n
         THEN r = Cur
         ELSE /\ r.liveUrls = liveUrls \ {playlist[index + 1].url}
              /\ IF n = 1
                   THEN /\ r.playlist = <<>> /\ r.currentTrackIndex = -1
                        /\ ~r.isPlaying /\ r.seekBarValue = 0 /\ r.uiTracks = 0
                        /\ audioElement =>
                             (r.src = 0 /\ r.paused /\ r.readyState = "empty")
                   ELSE /\ r.playlist = RemoveAt(playlist, index + 1)
                        /\ IF index # currentTrackIndex
                             THEN /\ r.currentTrackIndex =
                                       IF index < currentTrackIndex
                                         THEN currentTrackIndex - 1
                                         ELSE currentTrackIndex
                                  /\ currentTrackIndex # -1 =>
                                       r.playlist[r.currentTrackIndex + 1]
                                         = playlist[currentTrackIndex + 1]
                                  /\ Transport(r) = Transport(Cur)
                             ELSE /\ r.currentTrackIndex =
                                       IF index < n - 1 THEN index ELSE 0
                                  /\ r.playlist[r.currentTrackIndex + 1] =
                                       IF index < n - 1 THEN playlist[index + 2]
                                                        ELSE playlist[1]
                                  /\ audioElement =>
                                       /\ r.src = r.playlist[r.currentTrackIndex + 1].url
                                       /\ r.readyState = "loading"
                                       /\ r.currentTime = 0
                                       /\ allowed => ~r.paused

(* a and b were added, a was current and was removed: b took its place,   *)
(* is current, and is loaded                                               *)
C32_Witness ==
  /\ variant = "web"
  /\ Len(playlist) = 1 /\ playlist[1].url = 2 /\ nextUrl = 3
  /\ currentTrackIndex = 0 /\ src = 2
  /\ liveUrls = {2}
  /\ uiTracks = 1

(***************************************************************************)
(* C33.  The 'playlist:sort' listener, applied in any reachable state:    *)
(* the sorted playlist holds the same tracks, in the order of their names *)
(* without case; currentTrackIndex stays -1 or points at the track object *)
(* it pointed at; the media element and isPlaying are left alone; and an  *)
(* empty playlist leaves the whole state as it is.                        *)
(***************************************************************************)
C33_SortKeepsCurrent ==
  LET r == onPlaylistSort(Cur)
      n == Len(playlist)
  IN /\ n = 0 => r = Cur
     /\ Len(r.playlist) = n
     /\ {r.playlist[k] : k \in 1..n} = {playlist[k] : k \in 1..n}
     /\ \A i, j \in 1..n :
          i < j => localeCompare(r.playlist[i].name, r.playlist[j].name) <= 0
     /\ IF currentTrackIndex = -1
          THEN r.currentTrackIndex = -1
          ELSE r.playlist[r.currentTrackIndex + 1] = playlist[currentTrackIndex + 1]
     /\ Transport(r) = Transport(Cur)
     /\ r.isPlaying = isPlaying
     /\ r.liveUrls = liveUrls

(* b was added and is playing, a was added after it; the sort has put a   *)
(* in front, b is still current and still the source of the element       *)
C33_Witness ==
  /\ variant = "web"
  /\ Len(playlist) = 2
  /\ playlist[1].name = <<"a", "mp3">> /\ playlist[1].url = 2
  /\ playlist[2].name = <<"b", "MP3">> /\ playlist[2].url = 1
  /\ currentTrackIndex = 1 /\ src = 1
  /\ isPlaying /\ ~paused

(* the name::size keys of a playlist                                       *)
KeysOf(list) == {KeyOf(list[k]) : k \in 1..Len(list)}

(***************************************************************************)
(* C34.  In every state the name::size keys of the playlist are pairwise  *)
(* distinct and every name passes the .mp3 test; and                      *)
(* addFilesArrayToPlaylist, applied in any reachable state to any batch,  *)
(* appends one track for every new key of the batch among the files that  *)
(* pass the test, skipping files whose key is in the playlist or came     *)
(* earlier in the batch, and nothing else.                                 *)
(***************************************************************************)
C34_KeysDistinct ==
  /\ \A i, j \in 1..Len(playlist) :
       i # j => KeyOf(playlist[i]) # KeyOf(playlist[j])
  /\ \A k \in 1..Len(playlist) : IsMp3(playlist[k].name)
  /\ \A files \in PlaylistBatches :
       LET r == addFilesArrayToPlaylist(Cur, files, TRUE)
           n == Len(playlist)
           accepted == {KeyOf(files[k]) : k \in {k \in 1..Len(files) : IsMp3(files[k].name)}}
       IN /\ SubSeq(r.playlist, 1, n) = playlist
          /\ Len(r.playlist) = n + Cardinality(accepted \ KeysOf(playlist))
          /\ KeysOf(r.playlist) = KeysOf(playlist) \cup accepted
          /\ \A i, j \in 1..Len(r.playlist) :
               i # j => KeyOf(r.playlist[i]) # KeyOf(r.playlist[j])

(* A.mp3 and a.mp3, of one size, were added in one batch: two keys, two   *)
(* tracks                                                                  *)
C34_Witness ==
  /\ variant = "web"
  /\ Len(playlist) = 2
  /\ KeyOf(playlist[1]) = <<<<"A", "mp3">>, 1>>
  /\ KeyOf(playlist[2]) = <<<<"a", "mp3">>, 1>>
  /\ nextUrl = 3

(***************************************************************************)
(* C35.  As claimed: in every state the object URLs created and not       *)
(* revoked are the urls of the tracks in the playlist, and the source of  *)
(* a playing audio element is not a revoked URL.  The first part holds;   *)
(* clearPlaylist of script.js revokes the URLs and leaves the element's   *)
(* source in place, and togglePlayPause plays it again.                   *)
(***************************************************************************)
C35_NoLeakNoUseAfterRevoke ==
  /\ liveUrls = {playlist[k].url : k \in 1..Len(playlist)}
  /\ (audioElement /\ ~paused /\ src # 0) => src \in liveUrls

(* the bars page plays the track whose URL the clear has revoked, with    *)
(* another track in the playlist                                           *)
C35_PlayingRevokedSource ==
  /\ variant = "bars"
  /\ audioElement /\ ~paused /\ isPlaying
  /\ src = 1 /\ liveUrls = {2}
  /\ Len(playlist) = 1 /\ playlist[1].url = 2
  /\ currentTrackIndex = -1

(* the part of C35 that holds on every page: no URL leaks, and on the     *)
(* page of part_000 the source of the element is never a revoked URL      *)
C35_NoLeak ==
  /\ liveUrls = {playlist[k].url : k \in 1..Len(playlist)}
  /\ variant = "web" => (src # 0 => src \in liveUrls)

(***************************************************************************)
(* C36.  loadTrack, applied in any reachable state with any index: with   *)
(* an empty playlist or without audioContext it changes nothing;          *)
(* otherwise the last track becomes current for an index below 0, the     *)
(* first for an index of length or more, and track index for any other,   *)
(* and that track is the one loaded into the element.  Hence the 'ended'  *)
(* listener and skip-forward go from the last track to the first, and     *)
(* skip-back goes from the first track to the last.                       *)
(***************************************************************************)
C36_NavigationIsCyclic ==
  LET n == Len(playlist)
  IN /\ \A index \in -2..(n + 1), allowed \in BOOLEAN :
          LET r == loadTrack(Cur, index, allowed)
          IN IF n = 0 \/ ~audioContext
               THEN r = Cur
               ELSE /\ r.currentTrackIndex =
                         IF index < 0 THEN n - 1 ELSE IF index >= n THEN 0 ELSE index
                    /\ r.playlist = playlist
                    /\ audioElement => r.src = playlist[r.currentTrackIndex + 1].url
     /\ (n > 0 /\ audioContext /\ currentTrackIndex = n - 1) =>
          /\ onEnded(Cur, TRUE).currentTrackIndex = 0
          /\ loadTrack(Cur, currentTrackIndex + 1, TRUE).currentTrackIndex = 0
     /\ (n > 0 /\ audioContext /\ currentTrackIndex = 0) =>
          loadTrack(Cur, currentTrackIndex - 1, TRUE).currentTrackIndex = n - 1

(* the last of two tracks has played to its end: the seek bar is at the   *)
(* end, 'pause' was heard, and the first track is current and loading     *)
C36_Witness ==
  /\ variant = "web"
  /\ Len(playlist) = 2
  /\ currentTrackIndex = 0 /\ src = playlist[1].url
  /\ seekBarValue = 100
  /\ ~isPlaying /\ ~paused
  /\ readyState = "loading" /\ mediaEvents = <<"play">>

(* the statuses activation i has posted, in the order of posting          *)
StatusesOf(i) ==
  LET own == SelectSeq(posted, LAMBDA m : m[1] = i)
  IN [k \in 1..Len(own) |-> own[k][2]]

(* the place of a status in the order of the handler                      *)
StatusRank(status) ==
  CASE status = "loading_model" -> 1
    [] status = "model_progress" -> 2
    [] status = "transcribing" -> 3
    [] status = "transcribe_progress" -> 4
    [] OTHER -> 5

(***************************************************************************)
(* C37.  As claimed: the statuses of every request are posted in the      *)
(* order loading_model, model_progress, transcribing,                     *)
(* transcribe_progress, terminal, with 'loading_model' the first.  The    *)
(* handler of part_001 constructs the Float32Array before its first post: *)
(* a request whose buffer it cannot take posts 'error' alone.             *)
(***************************************************************************)
C37_StatusOrder ==
  \A i \in 1..Len(requests) :
    LET s == StatusesOf(i)
        terminals == {k \in 1..Len(s) : s[k] \in {"complete", "error"}}
    IN /\ Len(s) >= 1 /\ s[1] = "loading_model"
       /\ Posts(WorkerCur, i, "loading_model") = 1
       /\ \A j, k \in 1..Len(s) : j < k => StatusRank(s[j]) <= StatusRank(s[k])
       /\ Posts(WorkerCur, i, "transcribing") <= 1
       /\ Posts(WorkerCur, i, "transcribing") = 1 =>
            /\ requests[i].pipeline # 0
            /\ pipelineCache[requests[i].key] # 0
       /\ Posts(WorkerCur, i, "transcribe_progress") > 0 =>
            Posts(WorkerCur, i, "transcribing") = 1
       /\ Posts(WorkerCur, i, "complete") = 1 =>
            Posts(WorkerCur, i, "transcribing") = 1
       /\ Cardinality(terminals) <= 1
       /\ terminals \subseteq {Len(s)}
       /\ (requests[i].pc \in {"done", "failed"}) <=> (Cardinality(terminals) = 1)
       /\ requests[i].pc = "done" => s[Len(s)] = "complete"
       /\ requests[i].pc = "failed" => s[Len(s)] = "error"

(***************************************************************************)
(* C37, amended.  A request that is rejected before the load posts        *)
(* 'error' and nothing else.  Every other request posts 'loading_model'   *)
(* first and once; the statuses of every request keep the order           *)
(* loading_model, model_progress, transcribing, transcribe_progress,      *)
(* terminal; 'transcribing' is posted at most once, with the pipeline in  *)
(* hand; 'transcribe_progress' and 'complete' come only after             *)
(* 'transcribing'; at most one terminal status, 'complete' or 'error', is *)
(* posted and nothing after it; and a request has posted its terminal     *)
(* status exactly if its handler has finished.                            *)
(***************************************************************************)
C37_StatusOrderOrErrorAlone ==
  \A i \in 1..Len(requests) :
    LET s == StatusesOf(i)
        terminals == {k \in 1..Len(s) : s[k] \in {"complete", "error"}}
    IN /\ Len(s) >= 1
       /\ IF requests[i].pipeline = 0
            THEN s = <<"error">> /\ requests[i].pc = "failed"
            ELSE s[1] = "loading_model" /\ Posts(WorkerCur, i, "loading_model") = 1
       /\ \A j, k \in 1..Len(s) : j < k => StatusRank(s[j]) <= StatusRank(s[k])
       /\ Posts(WorkerCur, i, "transcribing") <= 1
       /\ Posts(WorkerCur, i, "transcribing") = 1 =>
            /\ requests[i].pipeline # 0
            /\ pipelineCache[requests[i].key] # 0
       /\ Posts(WorkerCur, i, "transcribe_progress") > 0 =>
            Posts(WorkerCur, i, "transcribing") = 1
       /\ Posts(WorkerCur, i, "complete") = 1 =>
            Posts(WorkerCur, i, "transcribing") = 1
       /\ Cardinality(terminals) <= 1
       /\ terminals \subseteq {Len(s)}
       /\ (requests[i].pc \in {"done", "failed"}) <=> (Cardinality(terminals) = 1)
       /\ requests[i].pc = "done" => s[Len(s)] = "complete"
       /\ requests[i].pc = "failed" => s[Len(s)] = "error"

(* two requests are interleaved: the first has posted every status up to  *)
(* 'complete'; the second came while the first was loading, with a        *)
(* buffer of 6 bytes, and has posted 'error' alone                        *)
C37_Witness ==
  /\ variant = "worker-cache"
  /\ Len(requests) = 2
  /\ StatusesOf(1) = <<"loading_model", "model_progress", "transcribing",
                       "transcribe_progress", "complete">>
  /\ StatusesOf(2) = <<"error">>
  /\ posted[2] = <<2, "error">>
  /\ requests[2].pipeline = 0

(* request i has ended in the catch with its load rejected                *)
FailedAtLoad(i) ==
  /\ requests[i].pc = "failed"
  /\ requests[i].pipeline # 0
  /\ Posts(WorkerCur, i, "transcribing") = 0

(***************************************************************************)
(* C38.  As claimed: when the pipeline() call of a request rejects, the   *)
(* cache holds no entry for the key of the request (the instance is       *)
(* null).  Two requests for one key can be loading at once (C28); if the  *)
(* load of the other has resolved, the cache holds its pipeline.          *)
(***************************************************************************)
C38_FailedLoadLeavesNoEntry ==
  [][\A i \in 1..Len(requests) :
       (requests[i].pc = "loading" /\ requests'[i].pc = "failed") =>
         pipelineCache'[requests[i].key] = 0]_vars

(* two requests for one key were both loading; the load of the first      *)
(* resolved and was stored, the load of the second was rejected and       *)
(* reported: after the failed load the cache holds an entry for its key   *)
C38_FailedLoadKeyCached ==
  /\ Len(requests) = 2
  /\ requests[1].key = requests[2].key
  /\ pipelineCalls[requests[1].key] = 2
  /\ FailedAtLoad(2)
  /\ Posts(WorkerCur, 2, "error") = 1
  /\ pipelineCache[requests[2].key] = requests[1].pipeline
  /\ pipelineCache[requests[2].key] # 0

====
